---------------------------- MODULE Spec2Model ----------------------------
(* A model of the OpenList-Mobile client: the derived file view of the     *)
(* file browser, the login history of the login form, the file browser's  *)
(* listing / selection / deletion state machine, its touch gestures, and  *)
(* the URL normalisation of the service, and the blob URLs of the preview. *)
(* Strings are sequences of one-character strings, so that lower-casing,  *)
(* substring search and extension splitting are computed, not assumed.    *)
EXTENDS Integers, Sequences, FiniteSets, Bags, TLC

VARIABLES
    \* ---- FileBrowser: listing and derived-view inputs
    files, searchQuery, filterType, customExt, sortKey, sortOrder, foldersFirst,
    \* ---- App: the active connection, in memory and in localStorage
    config, lsConfig,
    \* ---- Login: the history in localStorage, the form's copy of it, the
    \* entry picked for deletion, the login request in flight, loading, error
    lsHistory, savedConfigs, configToDelete, loginPending, loginLoading, loginError,
    \* ---- FileBrowser: where it is, what it is doing, what is selected
    path, loading, errorMsg, uploading,
    selectedItemNames, isSelectionMode, batchActionLoading, showBatchDeleteConfirm,
    \* ---- ActionSheet of the file picked in the browser
    selectedFile, sheetLoading, deleting, confirmDelete, sheetError,
    \* ---- the requests in flight
    tasks,
    \* ---- FileBrowser: the gesture refs, the pull-to-refresh state, the
    \* long-press timeouts that are pending
    touchStartPos, touchStartOld, longPressTimer, wasLongPress, isPulling,
    pullDistance, isRefreshing, timers,
    \* ---- the fingers on the screen (each with where it went down and where
    \* it is, the row it went down on, and whether the long press it armed has
    \* fired) and the click the platform is about to send
    touches, pendingClick,
    \* ---- AListService: the thumb and the raw_url of the response it is
    \* handing back
    thumb, raw_url,
    \* ---- PreviewModal: its props while it is shown, every run of its effect
    \* with the closure variable currentBlobUrl, the blob URLs that are not
    \* revoked, and its state
    previewProps, effects, objectURLs, blobUrl, previewLoading, previewError

viewVars == <<files, searchQuery, filterType, customExt, sortKey, sortOrder, foldersFirst>>

appVars == <<config, lsConfig>>

loginVars == <<lsHistory, savedConfigs, configToDelete, loginPending, loginLoading, loginError>>

prefVars == <<sortKey, sortOrder, foldersFirst>>

fbVars == <<path, loading, errorMsg, uploading,
            selectedItemNames, isSelectionMode, batchActionLoading, showBatchDeleteConfirm>>

sheetVars == <<selectedFile, sheetLoading, deleting, confirmDelete, sheetError>>

netVars == <<tasks>>

gestureVars == <<touchStartPos, touchStartOld, longPressTimer, wasLongPress, isPulling,
                 pullDistance, isRefreshing, timers, touches, pendingClick>>

\* everything but the gesture state
browserVars == <<viewVars, appVars, loginVars, fbVars, sheetVars, netVars>>

serviceVars == <<thumb, raw_url>>

previewVars == <<previewProps, effects, objectURLs, blobUrl, previewLoading, previewError>>

vars == <<browserVars, gestureVars, serviceVars, previewVars>>

\* a value that may be absent is a sequence of at most one element; a string
\* that may be absent is "null"
Null == "null"
None == <<>>
\* an error text that is shown; what it says is not modelled
Message == "message"
Some(x) == <<x>>

-----------------------------------------------------------------------------
(* Characters and strings                                                  *)

UpperAlpha == <<"A","B","C","D","E","F","G","H","I","J","K","L","M",
                "N","O","P","Q","R","S","T","U","V","W","X","Y","Z">>
LowerAlpha == <<"a","b","c","d","e","f","g","h","i","j","k","l","m",
                "n","o","p","q","r","s","t","u","v","w","x","y","z">>
Digits == <<"0","1","2","3","4","5","6","7","8","9">>

IndexIn(c, s) == IF \E i \in DOMAIN s : s[i] = c
                 THEN CHOOSE i \in DOMAIN s : s[i] = c
                 ELSE 0

\* String.prototype.toLowerCase, one character
LowerChar(c) == IF IndexIn(c, UpperAlpha) # 0 THEN LowerAlpha[IndexIn(c, UpperAlpha)] ELSE c

toLowerCase(s) == [i \in DOMAIN s |-> LowerChar(s[i])]

\* String.prototype.includes
includes(hay, needle) ==
    \E i \in 0..(Len(hay) - Len(needle)) : SubSeq(hay, i + 1, i + Len(needle)) = needle

\* String.prototype.trim (the only white space of the model is " ")
RECURSIVE trimStart(_)
trimStart(s) == IF s # <<>> /\ Head(s) = " " THEN trimStart(Tail(s)) ELSE s
RECURSIVE trimEnd(_)
trimEnd(s) == IF s # <<>> /\ s[Len(s)] = " " THEN trimEnd(SubSeq(s, 1, Len(s) - 1)) ELSE s
trim(s) == trimEnd(trimStart(s))

\* String.prototype.replace(c, ''): drops the first occurrence of c only
removeFirst(s, c) ==
    IF IndexIn(c, s) = 0 THEN s
    ELSE LET i == CHOOSE k \in DOMAIN s : s[k] = c /\ \A j \in 1..(k - 1) : s[j] # c
         IN  SubSeq(s, 1, i - 1) \o SubSeq(s, i + 1, Len(s))

\* name.split('.').pop(): the text after the last '.', the whole name without one
lastDotPiece(s) ==
    IF IndexIn(".", s) = 0 THEN s
    ELSE LET i == CHOOSE k \in DOMAIN s : s[k] = "." /\ \A j \in (k + 1)..Len(s) : s[j] # "."
         IN  SubSeq(s, i + 1, Len(s))

-----------------------------------------------------------------------------
(* The derived view: sortedAndFilteredFiles                                *)

videoExts ==
    { <<"m","p","4">>, <<"m","k","v">>, <<"a","v","i">>, <<"m","o","v">>,
      <<"f","l","v">>, <<"w","m","v">>, <<"r","m","v","b">> }

imageExts ==
    { <<"j","p","g">>, <<"j","p","e","g">>, <<"p","n","g">>, <<"g","i","f">>,
      <<"w","e","b","p">>, <<"s","v","g">> }

docExts ==
    { <<"p","d","f">>, <<"d","o","c">>, <<"d","o","c","x">>, <<"x","l","s">>,
      <<"x","l","s","x">>, <<"p","p","t">>, <<"p","p","t","x">>, <<"t","x","t">>,
      <<"m","d">>, <<"j","s","o","n">>, <<"y","a","m","l">>, <<"y","m","l">>,
      <<"j","s">>, <<"t","s">>, <<"p","y">>, <<"c","s","s">>, <<"h","t","m","l">>,
      <<"c","o","n","f">>, <<"i","n","i">>, <<"l","o","g">>, <<"t","s","x">>,
      <<"j","s","x">>, <<"s","h">>, <<"s","q","l">>, <<"x","m","l">>, <<"c","s","v">>,
      <<"g","o">>, <<"c">>, <<"c","p","p">>, <<"j","a","v","a">> }

FilterTypes == {"all", "video", "image", "doc", "others", "custom"}
SortKeys == {"name", "modified", "size"}
SortOrders == {"asc", "desc"}

\* f.name.toLowerCase().includes(searchQuery.toLowerCase())
matchesSearch(f) == includes(toLowerCase(f.name), toLowerCase(searchQuery))

\* f.name.split('.').pop()?.toLowerCase() || ''
ext(f) == toLowerCase(lastDotPiece(f.name))

\* customExt.toLowerCase().trim().replace('.', '')
customExtNormalized == removeFirst(trim(toLowerCase(customExt)), ".")

\* the switch on filterType, for a non-directory entry
typeFilter(f) ==
    CASE filterType = "video"  -> ext(f) \in videoExts
      [] filterType = "image"  -> ext(f) \in imageExts
      [] filterType = "doc"    -> ext(f) \in docExts
      [] filterType = "others" -> /\ ext(f) \notin videoExts
                                  /\ ext(f) \notin imageExts
                                  /\ ext(f) \notin docExts
      [] filterType = "custom" -> IF customExt # <<>> THEN ext(f) = customExtNormalized ELSE TRUE
      [] OTHER -> TRUE

\* a mutation of the filter: directories are subject to the type filter too
filterPredicateNoDirBypass(f) ==
    IF ~matchesSearch(f) THEN FALSE
    ELSE typeFilter(f)

\* the predicate of files.filter(...)
filterPredicate(f) ==
    IF ~matchesSearch(f) THEN FALSE
    ELSE IF f.is_dir THEN TRUE
    ELSE typeFilter(f)

\* ---- a.name.localeCompare(b.name, undefined, {numeric: true, sensitivity: 'base'})
\* Primary-strength collation: case is ignored, punctuation sorts before digits,
\* digits before letters, and a run of digits compares by its numeric value.
Punctuation == <<" ", "_", "-", ".">>

isDigit(c) == IndexIn(c, Digits) # 0

primaryWeight(c) ==
    IF IndexIn(c, Punctuation) # 0 THEN IndexIn(c, Punctuation)
    ELSE IF isDigit(c) THEN 10
    ELSE 20 + IndexIn(LowerChar(c), LowerAlpha)

RECURSIVE digitRunLen(_)
digitRunLen(s) == IF s # <<>> /\ isDigit(Head(s)) THEN 1 + digitRunLen(Tail(s)) ELSE 0

RECURSIVE digitsValue(_)
digitsValue(s) ==
    IF s = <<>> THEN 0
    ELSE 10 * digitsValue(SubSeq(s, 1, Len(s) - 1)) + (IndexIn(s[Len(s)], Digits) - 1)

sign(n) == IF n < 0 THEN -1 ELSE IF n > 0 THEN 1 ELSE 0

RECURSIVE localeCompare(_, _)
localeCompare(a, b) ==
    IF a = <<>> /\ b = <<>> THEN 0
    ELSE IF a = <<>> THEN -1
    ELSE IF b = <<>> THEN 1
    ELSE IF isDigit(Head(a)) /\ isDigit(Head(b))
         THEN LET la == digitRunLen(a)
                  lb == digitRunLen(b)
                  va == digitsValue(SubSeq(a, 1, la))
                  vb == digitsValue(SubSeq(b, 1, lb))
              IN  IF va # vb THEN sign(va - vb)
                  ELSE localeCompare(SubSeq(a, la + 1, Len(a)), SubSeq(b, lb + 1, Len(b)))
    ELSE IF primaryWeight(Head(a)) # primaryWeight(Head(b))
         THEN sign(primaryWeight(Head(a)) - primaryWeight(Head(b)))
    ELSE localeCompare(Tail(a), Tail(b))

\* (a.size || 0): has_size is FALSE for an entry the server sent without a size
sizeOrZero(f) == IF f.has_size THEN f.size ELSE 0

RECURSIVE compareByCharacter(_, _)
\* a comparison without {numeric: true}: character by character, a digit
\* being one more character
compareByCharacter(a, b) ==
    IF a = <<>> /\ b = <<>> THEN 0
    ELSE IF a = <<>> THEN -1
    ELSE IF b = <<>> THEN 1
    ELSE IF isDigit(Head(a)) /\ isDigit(Head(b)) /\ Head(a) # Head(b)
         THEN sign(IndexIn(Head(a), Digits) - IndexIn(Head(b), Digits))
    ELSE IF primaryWeight(Head(a)) # primaryWeight(Head(b))
         THEN sign(primaryWeight(Head(a)) - primaryWeight(Head(b)))
    ELSE compareByCharacter(Tail(a), Tail(b))

\* a mutation of the switch on sortKey: names compare without {numeric: true}
keyComparisonByCharacter(a, b) ==
    CASE sortKey = "name"     -> compareByCharacter(a.name, b.name)
      [] sortKey = "size"     -> sizeOrZero(a) - sizeOrZero(b)
      [] sortKey = "modified" -> a.modified - b.modified
      [] OTHER -> 0

\* the switch on sortKey
keyComparison(a, b) ==
    CASE sortKey = "name"     -> localeCompare(a.name, b.name)
      [] sortKey = "size"     -> sizeOrZero(a) - sizeOrZero(b)
      [] sortKey = "modified" -> a.modified - b.modified
      [] OTHER -> 0

\* a mutation of the comparator: the folders-first test reads only one side
compareFoldersFirstOneSided(a, b) ==
    IF foldersFirst /\ a.is_dir /\ ~b.is_dir THEN -1
    ELSE IF sortOrder = "asc" THEN keyComparison(a, b) ELSE -keyComparison(a, b)

\* the comparator handed to result.sort
compare(a, b) ==
    IF foldersFirst /\ a.is_dir /\ ~b.is_dir THEN -1
    ELSE IF foldersFirst /\ ~a.is_dir /\ b.is_dir THEN 1
    ELSE IF sortOrder = "asc" THEN keyComparison(a, b) ELSE -keyComparison(a, b)

\* Array.prototype.sort: a stable sort by the comparator (insertion into the
\* sorted prefix, after every element that does not compare greater)
insertSorted(x, s) ==
    LET later == {i \in DOMAIN s : compare(x, s[i]) < 0}
        pos == IF later = {} THEN Len(s) + 1
               ELSE CHOOSE i \in later : \A j \in later : i <= j
    IN  SubSeq(s, 1, pos - 1) \o <<x>> \o SubSeq(s, pos, Len(s))

RECURSIVE sortSeq(_)
sortSeq(s) ==
    IF s = <<>> THEN <<>>
    ELSE insertSorted(s[Len(s)], sortSeq(SubSeq(s, 1, Len(s) - 1)))

filtered == SelectSeq(files, filterPredicate)

sortedAndFilteredFiles == sortSeq(filtered)

-----------------------------------------------------------------------------
(* The file browser's state, the storage behind the service, and the       *)
(* requests in flight                                                      *)

MaxTasks == 2
MaxDepth == 1

name_d == <<"d">>
name_a == <<"a",".","t","x","t">>
name_c == <<"c",".","t","x","t">>

\* a path is the sequence of its segments; '/' is the empty sequence
root == <<>>

\* what the storage holds: the folder /d, the files /a.txt and /d/c.txt
Content(p) ==
    IF p = root
    THEN << [name |-> name_d, is_dir |-> TRUE,  has_size |-> TRUE, size |-> 0, modified |-> 1],
            [name |-> name_a, is_dir |-> FALSE, has_size |-> TRUE, size |-> 3, modified |-> 2] >>
    ELSE IF p = <<name_d>>
    THEN << [name |-> name_c, is_dir |-> FALSE, has_size |-> TRUE, size |-> 4, modified |-> 3] >>
    ELSE <<>>

\* the folders the storage holds
Folders == { root, <<name_d>> }

\* response.data.content of /api/fs/list for p
ListResults(p) == { Content(p) }

\* the outcomes of a request: a result, HTTP 401, any other failure, and the
\* abort by the timeout of request
Statuses == {"ok", "unauthorized", "failed", "timeout"}

\* a request in flight with the continuation that awaits it: path is the
\* folder the browser showed when it was issued, names what the loop over
\* getFileDetail has still to ask for, fb says that the FileBrowser that
\* issued it is still mounted, sheet that the ActionSheet that issued it is;
\* the names a remove request sends are not kept
Task(kind, origin, p, names, fb, sheet) ==
    [kind |-> kind, origin |-> origin, path |-> p, names |-> names, fb |-> fb, sheet |-> sheet]

RECURSIVE copiesOf(_, _)
\* how many members of the bag B are in the set S
copiesOf(S, B) ==
    IF S = {} THEN 0
    ELSE LET t == CHOOSE x \in S : TRUE
         IN  CopiesIn(t, B) + copiesOf(S \ {t}, B)

\* the bag B with every member t replaced by f[t], members outside DOMAIN f dropped
mapBag(B, f) ==
    LET S == {f[t] : t \in DOMAIN f}
    IN  IF S = {} THEN EmptyBag
        ELSE [d \in S |-> copiesOf({t \in DOMAIN f : f[t] = d}, B)]

\* the requests after the FileBrowser (and any ActionSheet) was unmounted:
\* the continuations no longer reach a component, so only the kind of a
\* request still matters, and a getFileDetail has nothing left to do
detachAll(B) ==
    LET kept == {t \in BagToSet(B) : t.kind # "detail"}
    IN  mapBag(B, [t \in kept |-> Task(t.kind, "fetch", root, {}, FALSE, FALSE)])

\* the requests after the ActionSheet was unmounted: its fetchLink has
\* nothing left to do, its deleteFile still calls onRefresh and onClose
detachSheet(B) ==
    LET kept == {t \in BagToSet(B) : ~(t.kind = "detail" /\ t.sheet)}
    IN  mapBag(B, [t \in kept |-> [t EXCEPT !.sheet = FALSE]])

mounted == config # None

\* neither the batch-delete overlay nor the action sheet covers the browser
Interactive == mounted /\ ~showBatchDeleteConfirm /\ selectedFile = None

\* the state of an ActionSheet that is not shown
sheetInitialState ==
    /\ selectedFile' = None
    /\ sheetLoading' = TRUE
    /\ deleting' = FALSE
    /\ confirmDelete' = FALSE
    /\ sheetError' = Null

\* the state of a FileBrowser when it is constructed (and the state kept
\* for it while it is not mounted); the sort preferences are in localStorage
fileBrowserInitialState ==
    /\ path' = root
    /\ files' = <<>>
    /\ loading' = TRUE
    /\ uploading' = FALSE
    /\ errorMsg' = Null
    /\ searchQuery' = <<>>
    /\ selectedItemNames' = {}
    /\ isSelectionMode' = FALSE
    /\ batchActionLoading' = FALSE
    /\ showBatchDeleteConfirm' = FALSE
    /\ filterType' = "all"
    /\ customExt' = <<>>
    /\ sheetInitialState
    /\ UNCHANGED prefVars

\* the same, as a predicate of the current state
fileBrowserUnmounted ==
    /\ path = root
    /\ files = <<>>
    /\ loading = TRUE
    /\ uploading = FALSE
    /\ errorMsg = Null
    /\ searchQuery = <<>>
    /\ selectedItemNames = {}
    /\ isSelectionMode = FALSE
    /\ batchActionLoading = FALSE
    /\ showBatchDeleteConfirm = FALSE
    /\ filterType = "all"
    /\ customExt = <<>>
    /\ selectedFile = None
    /\ sheetLoading = TRUE
    /\ deleting = FALSE
    /\ confirmDelete = FALSE
    /\ sheetError = Null
    /\ sortKey = "name"
    /\ sortOrder = "asc"
    /\ foldersFirst = TRUE

MaxTouches == 2
MaxTimers == 2
\* how many fingers may be on the screen while one of them moves
MaxMovingTouches == 1
\* how many requests may be in flight when a swipe or a click sends another;
\* a pull of one finger alone may send its refresh while fewer than
\* MaxTasks are in flight
MaxGestureTasks == 1

\* a string that is undefined in the response of the server: not a sequence
\* of characters
Undefined == <<"undefined">>

\* the service is not handing back a response
noResponse == thumb = Undefined /\ raw_url = Undefined

\* no PreviewModal is shown and none was: the state of a PreviewModal when
\* it is constructed, no effect has run, no blob URL exists
previewClosed ==
    /\ previewProps = None
    /\ effects = <<>>
    /\ objectURLs = {}
    /\ blobUrl = 0
    /\ previewLoading = TRUE
    /\ previewError = Null

\* the gesture refs and the pull-to-refresh state of a FileBrowser when it is
\* constructed, with no finger on the screen
gestureInitialState ==
    /\ touchStartPos = [x |-> 0, y |-> 0]
    /\ touchStartOld = TRUE
    /\ longPressTimer = 0
    /\ wasLongPress = FALSE
    /\ isPulling = FALSE
    /\ pullDistance = 0
    /\ isRefreshing = FALSE
    /\ timers = [k \in 1..MaxTimers |-> None]
    /\ touches = [f \in 1..MaxTouches |-> None]
    /\ pendingClick = None

\* a step without a touch, a timeout or a click, and in which the service
\* hands back no thumb or raw_url
idle == UNCHANGED <<gestureVars, serviceVars, previewVars>>

\* useEffect[path] of a FileBrowser that was just mounted: fetchFiles('/')
mountEffectTask == Task("list", "fetch", root, {}, TRUE, FALSE)

-----------------------------------------------------------------------------
(* App and Login: the active connection and the login history              *)

HistoryCap == 5

str_http == <<"h","t","t","p",":","/","/">>
str_port == <<"5","2","4","4">>
str_OpenList == <<"O","p","e","n","L","i","s","t">>
str_NAS == <<"N","A","S">>
str_h1 == <<"h","1">>
str_h2 == <<"h","2">>
str_h3 == <<"h","3">>

\* address.trim().replace(/\/$/, "")
removeTrailingSlash(s) == IF s # <<>> /\ s[Len(s)] = "/" THEN SubSeq(s, 1, Len(s) - 1) ELSE s
cleanAddress(address) == removeTrailingSlash(trim(address))

\* `${protocol}${cleanAddress}${cleanPort ? `:${cleanPort}` : ''}`
targetUrl(protocol, address, port) ==
    protocol \o cleanAddress(address) \o (IF trim(port) # <<>> THEN <<":">> \o trim(port) ELSE <<>>)

\* serverName.trim() || 'OpenList'
finalServerName(serverName) == IF trim(serverName) # <<>> THEN trim(serverName) ELSE str_OpenList

ServerConfig(url, username, token, serverName) ==
    [url |-> url, username |-> username, token |-> token, serverName |-> serverName]

\* savedConfigs.findIndex(c => c.url === targetUrl && c.username === username),
\* 1-based, 0 for -1
findIndex(configs, url, username) ==
    LET hits == {i \in DOMAIN configs : configs[i].url = url /\ configs[i].username = username}
    IN  IF hits = {} THEN 0 ELSE CHOOSE i \in hits : \A j \in hits : i <= j

\* a mutation of the history update: the slice to the cap is missing
updatedHistoryNoSlice(configs, newConfig) ==
    LET existing == findIndex(configs, newConfig.url, newConfig.username)
    IN  IF existing # 0 THEN [configs EXCEPT ![existing] = newConfig]
        ELSE <<newConfig>> \o configs

\* a mutation of the history update: the entry logged into moves to the front
updatedHistoryMoveToFront(configs, newConfig) ==
    LET others == SelectSeq(configs, LAMBDA c : ~(c.url = newConfig.url /\ c.username = newConfig.username))
        merged == <<newConfig>> \o others
    IN  SubSeq(merged, 1, IF Len(merged) < HistoryCap THEN Len(merged) ELSE HistoryCap)

\* updatedHistory of handleSubmit: replace in place or unshift, then slice(0, 5)
updatedHistory(configs, newConfig) ==
    LET existing == findIndex(configs, newConfig.url, newConfig.username)
        merged == IF existing # 0 THEN [configs EXCEPT ![existing] = newConfig]
                  ELSE <<newConfig>> \o configs
    IN  SubSeq(merged, 1, IF Len(merged) < HistoryCap THEN Len(merged) ELSE HistoryCap)

\* a nickname with the two characters JSON escapes
str_quoted == <<"a", "\"", "\\">>

\* what the form holds when it is submitted
FormInputs ==
    { [address |-> str_h3, username |-> "bob", serverName |-> str_quoted],
      [address |-> str_h2 \o <<"/">>, username |-> "admin", serverName |-> <<" ">> \o str_NAS \o <<" ">>],
      [address |-> str_h3, username |-> "admin", serverName |-> <<>>],
      [address |-> <<" ">>, username |-> "admin", serverName |-> <<>>] }

\* a history five earlier logins left in localStorage, newest first
FullHistory ==
    << ServerConfig(str_http \o str_h1 \o <<":">> \o str_port, "admin", "t1", str_OpenList),
       ServerConfig(str_http \o str_h1 \o <<":">> \o str_port, "bob",   "t1", str_OpenList),
       ServerConfig(str_http \o str_h2 \o <<":">> \o str_port, "admin", "t1", str_OpenList),
       ServerConfig(str_http \o str_h2 \o <<":">> \o str_port, "bob",   "t1", str_OpenList),
       ServerConfig(str_http \o str_h3 \o <<":">> \o str_port, "admin", "t1", str_OpenList) >>

\* the histories localStorage holds when the app is opened
InitialHistories == { <<>>, FullHistory }

\* the token the server issues for a login
IssuedTokens == {"t2"}

\* the app is opened with no active connection: Login is shown and has loaded
\* the history
InitSession ==
    /\ config = None
    /\ lsConfig = None
    /\ lsHistory \in InitialHistories
    /\ savedConfigs = lsHistory
    /\ configToDelete = 0
    /\ loginPending = None
    /\ loginLoading = FALSE
    /\ loginError = Null

RECURSIVE escapeJSON(_)
\* JSON.stringify of a string, without the enclosing quotes: a quote and a
\* backslash are written with a backslash before them
escapeJSON(s) ==
    IF s = <<>> THEN <<>>
    ELSE (IF Head(s) \in {"\"", "\\"} THEN <<"\\", Head(s)>> ELSE <<Head(s)>>)
         \o escapeJSON(Tail(s))

RECURSIVE unescapeJSON(_)
\* JSON.parse of the inside of a string literal: the character after a
\* backslash is taken as it stands
unescapeJSON(s) ==
    IF s = <<>> THEN <<>>
    ELSE IF Head(s) = "\\" /\ Len(s) >= 2
         THEN <<s[2]>> \o unescapeJSON(SubSeq(s, 3, Len(s)))
         ELSE <<Head(s)>> \o unescapeJSON(Tail(s))

\* JSON.stringify(newConfig), kept field by field; the username and the token
\* are atoms of the model that hold nothing to escape
JSONstringify(c) ==
    [c EXCEPT !.url = escapeJSON(c.url), !.serverName = escapeJSON(c.serverName)]

\* JSON.parse(saved)
JSONparse(c) ==
    [c EXCEPT !.url = unescapeJSON(c.url), !.serverName = unescapeJSON(c.serverName)]

\* the app is opened with the connection of the latest login stored: the file
\* browser is shown
InitLoggedIn ==
    /\ config = Some(FullHistory[1])
    /\ lsConfig = Some(JSONstringify(FullHistory[1]))
    /\ lsHistory = FullHistory
    /\ savedConfigs = <<>>
    /\ configToDelete = 0
    /\ loginPending = None
    /\ loginLoading = FALSE
    /\ loginError = Null

LoginMounted == config = None

\* the state kept for Login while it is not shown
loginUnmountedState ==
    /\ savedConfigs' = <<>>
    /\ configToDelete' = 0
    /\ loginPending' = None
    /\ loginLoading' = FALSE
    /\ loginError' = Null

\* handleSubmit up to the validation of the address
handleSubmitInvalid(form) ==
    /\ LoginMounted /\ loginPending = None /\ configToDelete = 0
    /\ cleanAddress(form.address) = <<>>
    /\ loginError' = "validation"
    /\ loginLoading' = FALSE
    /\ UNCHANGED <<lsHistory, savedConfigs, configToDelete, loginPending, appVars, viewVars, fbVars, sheetVars, netVars>>

\* handleSubmit up to the await of AListService.login: the continuation keeps
\* the savedConfigs of the render that submitted
handleSubmitStart(form) ==
    /\ LoginMounted /\ loginPending = None /\ configToDelete = 0
    /\ cleanAddress(form.address) # <<>>
    /\ BagCardinality(tasks) < MaxTasks
    /\ loginLoading' = TRUE
    /\ loginError' = Null
    /\ loginPending' = Some([url |-> targetUrl(str_http, form.address, str_port),
                        username |-> form.username,
                        serverName |-> finalServerName(form.serverName),
                        savedConfigs |-> savedConfigs])
    /\ UNCHANGED <<lsHistory, savedConfigs, configToDelete, appVars, viewVars, fbVars, sheetVars, netVars>>

\* App.handleLogin, called by onLogin
handleLogin(newConfig) ==
    /\ config' = Some(newConfig)
    /\ lsConfig' = Some(JSONstringify(newConfig))

\* handleSubmit after AListService.login resolved: the history is written,
\* onLogin swaps Login for a new FileBrowser, whose effect fetches '/'
handleSubmitResolved(token) ==
    /\ LoginMounted /\ loginPending # None
    /\ LET pending == loginPending[1]
           newConfig == ServerConfig(pending.url, pending.username, token, pending.serverName)
       IN  /\ lsHistory' = updatedHistory(pending.savedConfigs, newConfig)
           /\ handleLogin(newConfig)
    /\ loginUnmountedState
    /\ fileBrowserInitialState
    /\ tasks' = tasks (+) SetToBag({mountEffectTask})

\* the ways AListService.login rejects: a response that is not ok, a body whose
\* code is not 200, and a fetch that fails
LoginFailures == {"status", "code", "network"}

\* the type of the error the catch block of handleSubmit shows
loginErrorType(cause) == IF cause = "network" THEN "network" ELSE "auth"

\* a catch block that has no finally: the form stays in loading
handleSubmitRejectedNoFinally(cause) ==
    /\ LoginMounted /\ loginPending # None
    /\ loginError' = loginErrorType(cause)
    /\ loginPending' = None
    /\ UNCHANGED <<lsHistory, savedConfigs, configToDelete, loginLoading, appVars, viewVars, fbVars, sheetVars, netVars>>

\* handleSubmit after AListService.login rejected
handleSubmitRejected(cause) ==
    /\ LoginMounted /\ loginPending # None
    /\ loginError' = loginErrorType(cause)
    /\ loginLoading' = FALSE
    /\ loginPending' = None
    /\ UNCHANGED <<lsHistory, savedConfigs, configToDelete, appVars, viewVars, fbVars, sheetVars, netVars>>

initiateDelete(index) ==
    /\ LoginMounted /\ configToDelete = 0
    /\ index \in DOMAIN savedConfigs
    /\ configToDelete' = index
    /\ UNCHANGED <<lsHistory, savedConfigs, loginPending, loginLoading, loginError, appVars, viewVars, fbVars, sheetVars, netVars>>

cancelDelete ==
    /\ LoginMounted /\ configToDelete # 0
    /\ configToDelete' = 0
    /\ UNCHANGED <<lsHistory, savedConfigs, loginPending, loginLoading, loginError, appVars, viewVars, fbVars, sheetVars, netVars>>

\* a mutation of confirmDelete: it removes the first entry, not the chosen one
confirmDeleteHistoryFirst ==
    /\ LoginMounted /\ configToDelete # 0
    /\ savedConfigs' = Tail(savedConfigs)
    /\ lsHistory' = Tail(savedConfigs)
    /\ configToDelete' = 0
    /\ UNCHANGED <<loginPending, loginLoading, loginError, appVars, viewVars, fbVars, sheetVars, netVars>>

\* confirmDelete of Login (the name is taken by the ActionSheet's state)
confirmDeleteHistory ==
    /\ LoginMounted /\ configToDelete # 0
    /\ LET updated == SubSeq(savedConfigs, 1, configToDelete - 1)
                      \o SubSeq(savedConfigs, configToDelete + 1, Len(savedConfigs))
       IN  /\ savedConfigs' = updated
           /\ lsHistory' = updated
    /\ configToDelete' = 0
    /\ UNCHANGED <<loginPending, loginLoading, loginError, appVars, viewVars, fbVars, sheetVars, netVars>>

\* a mutation of handleLogout: it removes the login history as well
handleLogoutClearsHistory(rest) ==
    /\ config' = None
    /\ lsConfig' = None
    /\ lsHistory' = <<>>
    /\ tasks' = detachAll(rest)
    /\ IF mounted
       THEN /\ fileBrowserInitialState
            /\ savedConfigs' = <<>>
            /\ configToDelete' = 0
            /\ loginPending' = None
            /\ loginLoading' = FALSE
            /\ loginError' = Null
       ELSE UNCHANGED <<viewVars, fbVars, sheetVars, savedConfigs, configToDelete,
                        loginPending, loginLoading, loginError>>

\* App.handleLogout, with rest the requests left in flight: a FileBrowser
\* that is shown is unmounted and Login is shown, which loads the history
handleLogout(rest) ==
    /\ config' = None
    /\ lsConfig' = None
    /\ tasks' = detachAll(rest)
    /\ IF mounted
       THEN /\ fileBrowserInitialState
            /\ savedConfigs' = lsHistory
            /\ configToDelete' = 0
            /\ loginPending' = None
            /\ loginLoading' = FALSE
            /\ loginError' = Null
       ELSE UNCHANGED <<viewVars, fbVars, sheetVars, savedConfigs, configToDelete,
                        loginPending, loginLoading, loginError>>
    /\ UNCHANGED lsHistory

\* the logout button of the header
logoutClick ==
    /\ Interactive
    /\ handleLogout(tasks)

\* the page is opened again: App loads alist_config, Login (when shown) loads
\* alist_login_history, everything in memory starts over
reload ==
    /\ config' = IF lsConfig = None THEN None ELSE Some(JSONparse(lsConfig[1]))
    /\ fileBrowserInitialState
    /\ tasks' = IF lsConfig # None THEN SetToBag({mountEffectTask}) ELSE EmptyBag
    /\ savedConfigs' = IF lsConfig = None THEN lsHistory ELSE <<>>
    /\ configToDelete' = 0
    /\ loginPending' = None
    /\ loginLoading' = FALSE
    /\ loginError' = Null
    /\ UNCHANGED <<lsHistory, lsConfig>>

-----------------------------------------------------------------------------
(* Responses of the storage service and the continuations that await them  *)

\* a fetchFiles whose loading flag is reset only after a result
respondListNoFinally(t, status, content) ==
    /\ t \in BagToSet(tasks) /\ t.kind = "list"
    /\ content \in ListResults(t.path)
    /\ status = "ok" => t.path \in Folders
    /\ LET rest == tasks (-) SetToBag({t})
       IN  IF status = "unauthorized"
           THEN handleLogout(rest)
           ELSE /\ tasks' = rest
                /\ IF t.fb
                   THEN /\ files' = IF status = "ok" THEN content ELSE files
                        /\ errorMsg' = IF status = "ok" THEN errorMsg ELSE Message
                        /\ loading' = IF status = "ok" THEN FALSE ELSE loading
                        /\ IF t.origin = "batchDelete"
                           THEN /\ isSelectionMode' = FALSE
                                /\ selectedItemNames' = {}
                                /\ batchActionLoading' = FALSE
                                /\ showBatchDeleteConfirm' = FALSE
                           ELSE UNCHANGED <<isSelectionMode, selectedItemNames,
                                            batchActionLoading, showBatchDeleteConfirm>>
                        /\ uploading' = IF t.origin = "upload" THEN FALSE ELSE uploading
                        /\ UNCHANGED <<path, searchQuery, filterType, customExt, prefVars, sheetVars>>
                   ELSE UNCHANGED <<viewVars, fbVars, sheetVars>>
                /\ UNCHANGED <<appVars, loginVars>>

\* fetchFiles after listFiles settled, and what awaited fetchFiles
respondList(t, status, content) ==
    /\ t \in BagToSet(tasks) /\ t.kind = "list"
    /\ content \in ListResults(t.path)
    /\ status = "ok" => t.path \in Folders
    /\ LET rest == tasks (-) SetToBag({t})
       IN  IF status = "unauthorized"
           THEN handleLogout(rest)
           ELSE /\ tasks' = rest
                /\ IF t.fb
                   THEN /\ files' = IF status = "ok" THEN content ELSE files
                        /\ errorMsg' = IF status = "ok" THEN errorMsg ELSE Message
                        /\ loading' = FALSE
                        /\ IF t.origin = "batchDelete"
                           THEN /\ isSelectionMode' = FALSE
                                /\ selectedItemNames' = {}
                                /\ batchActionLoading' = FALSE
                                /\ showBatchDeleteConfirm' = FALSE
                           ELSE UNCHANGED <<isSelectionMode, selectedItemNames,
                                            batchActionLoading, showBatchDeleteConfirm>>
                        /\ uploading' = IF t.origin = "upload" THEN FALSE ELSE uploading
                        /\ UNCHANGED <<path, searchQuery, filterType, customExt, prefVars, sheetVars>>
                   ELSE UNCHANGED <<viewVars, fbVars, sheetVars>>
                /\ UNCHANGED <<appVars, loginVars>>

\* handleBatchDelete after deleteFiles settled, executeDelete after
\* deleteFile settled
respondRemove(t, status) ==
    /\ t \in BagToSet(tasks) /\ t.kind = "remove"
    /\ LET rest == tasks (-) SetToBag({t})
           follow == Task("list", IF t.origin = "sheet" THEN "fetch" ELSE "batchDelete",
                          t.path, {}, t.fb, FALSE)
       IN  IF status = "ok"
           THEN /\ tasks' = (IF t.origin = "sheet" /\ t.fb THEN detachSheet(rest) ELSE rest)
                            (+) SetToBag({follow})
                /\ IF t.fb
                   THEN /\ loading' = TRUE
                        /\ errorMsg' = Null
                        /\ IF t.origin = "sheet" THEN sheetInitialState ELSE UNCHANGED sheetVars
                        /\ UNCHANGED <<viewVars, path, uploading, selectedItemNames, isSelectionMode,
                                       batchActionLoading, showBatchDeleteConfirm>>
                   ELSE UNCHANGED <<viewVars, fbVars, sheetVars>>
           ELSE /\ tasks' = rest
                /\ IF t.origin = "batchDelete" /\ t.fb
                   THEN /\ errorMsg' = Message
                        /\ batchActionLoading' = FALSE
                        /\ showBatchDeleteConfirm' = FALSE
                        /\ UNCHANGED <<viewVars, path, loading, uploading, selectedItemNames,
                                       isSelectionMode, sheetVars>>
                   ELSE IF t.origin = "sheet" /\ t.sheet
                   THEN /\ sheetError' = Message
                        /\ deleting' = FALSE
                        /\ confirmDelete' = FALSE
                        /\ UNCHANGED <<viewVars, fbVars, selectedFile, sheetLoading>>
                   ELSE UNCHANGED <<viewVars, fbVars, sheetVars>>
    /\ UNCHANGED <<appVars, loginVars>>

\* fetchLink of the ActionSheet, or one round of the loop of
\* handleBatchDownload / handleBatchCopyLinks, after getFileDetail settled
respondDetail(t, status) ==
    /\ t \in BagToSet(tasks) /\ t.kind = "detail"
    /\ LET rest == tasks (-) SetToBag({t})
           done == CHOOSE n \in t.names : TRUE
           remaining == t.names \ {done}
       IN  IF t.origin = "sheet"
           THEN /\ tasks' = rest
                /\ IF t.sheet
                   THEN /\ sheetError' = IF status = "ok" THEN sheetError ELSE Message
                        /\ sheetLoading' = FALSE
                        /\ UNCHANGED <<selectedFile, deleting, confirmDelete>>
                   ELSE UNCHANGED sheetVars
                /\ UNCHANGED <<viewVars, fbVars>>
           ELSE IF status = "ok" /\ remaining # {}
           THEN /\ tasks' = rest (+) SetToBag({[t EXCEPT !.names = remaining]})
                /\ UNCHANGED <<viewVars, fbVars, sheetVars>>
           ELSE /\ tasks' = rest
                /\ IF t.fb
                   THEN /\ batchActionLoading' = FALSE
                        /\ isSelectionMode' = IF status = "ok" THEN FALSE ELSE isSelectionMode
                        /\ selectedItemNames' = IF status = "ok" THEN {} ELSE selectedItemNames
                        /\ errorMsg' = IF status = "ok" THEN errorMsg ELSE Message
                        /\ UNCHANGED <<viewVars, path, loading, uploading, showBatchDeleteConfirm,
                                       sheetVars>>
                   ELSE UNCHANGED <<viewVars, fbVars, sheetVars>>
    /\ UNCHANGED <<appVars, loginVars>>

\* handleFileChange after uploadFile settled
respondUpload(t, status) ==
    /\ t \in BagToSet(tasks) /\ t.kind = "upload"
    /\ LET rest == tasks (-) SetToBag({t})
       IN  IF status = "ok"
           THEN /\ tasks' = rest (+) SetToBag({Task("list", "upload", t.path, {}, t.fb, FALSE)})
                /\ IF t.fb
                   THEN /\ loading' = TRUE
                        /\ errorMsg' = Null
                        /\ UNCHANGED <<viewVars, path, uploading, selectedItemNames, isSelectionMode,
                                       batchActionLoading, showBatchDeleteConfirm, sheetVars>>
                   ELSE UNCHANGED <<viewVars, fbVars, sheetVars>>
           ELSE /\ tasks' = rest
                /\ IF t.fb
                   THEN /\ errorMsg' = Message
                        /\ uploading' = FALSE
                        /\ UNCHANGED <<viewVars, path, loading, selectedItemNames, isSelectionMode,
                                       batchActionLoading, showBatchDeleteConfirm, sheetVars>>
                   ELSE UNCHANGED <<viewVars, fbVars, sheetVars>>
    /\ UNCHANGED <<appVars, loginVars>>

\* the requests a response can arrive for
Pending == BagToSet(tasks)

NextLogin ==
    \/ \E form \in FormInputs : handleSubmitInvalid(form) /\ idle
    \/ \E form \in FormInputs : handleSubmitStart(form) /\ idle
    \/ \E token \in IssuedTokens : handleSubmitResolved(token) /\ idle
    \/ \E cause \in LoginFailures : handleSubmitRejected(cause) /\ idle
    \/ \E index \in 1..HistoryCap : initiateDelete(index) /\ idle
    \/ cancelDelete /\ idle
    \/ confirmDeleteHistory /\ idle
    \/ logoutClick /\ idle
    \/ reload /\ idle
    \/ \E t \in Pending, status \in Statuses : \E content \in ListResults(t.path) : respondList(t, status, content) /\ idle

InitLogin ==
    /\ InitSession
    /\ fileBrowserUnmounted
    /\ gestureInitialState
    /\ noResponse
    /\ previewClosed
    /\ tasks = EmptyBag

SpecLogin == InitLogin /\ [][NextLogin]_vars

-----------------------------------------------------------------------------
(* Claims about the login history                                          *)

\* a step in which an in-flight login succeeds
loginSucceeds == LoginMounted /\ loginPending # None /\ config' # None

\* a step in which an in-flight login is rejected
loginFails == \E cause \in LoginFailures : handleSubmitRejected(cause)

hasKey(configs, url, username) == findIndex(configs, url, username) # 0

\* C3: the persisted login history never holds more than 5 entries, and a
\* successful login whose (url, username) is not in a full persisted history
\* leaves the new entry first, followed by the former entries without the
\* last (oldest) one.
C3_HistoryCapAndEviction ==
    [][ /\ Len(lsHistory) <= HistoryCap
        /\ Len(lsHistory') <= HistoryCap
        /\ ( /\ loginSucceeds
             /\ Len(lsHistory) = HistoryCap
             /\ ~hasKey(lsHistory, loginPending[1].url, loginPending[1].username) )
           => /\ config'[1].url = loginPending[1].url
              /\ config'[1].username = loginPending[1].username
              /\ lsHistory' = <<config'[1]>> \o SubSeq(lsHistory, 1, HistoryCap - 1) ]_vars

\* a login of h3/bob into the full history has evicted h3/admin
C3_Witness ==
    /\ Len(lsHistory) = HistoryCap
    /\ lsHistory[1].username = "bob"
    /\ lsHistory[1].url = str_http \o str_h3 \o <<":">> \o str_port
    /\ SubSeq(lsHistory, 2, HistoryCap) = SubSeq(FullHistory, 1, HistoryCap - 1)
    /\ config = Some(lsHistory[1])

\* C4: a successful login whose (url, username) is that of an entry of the
\* persisted history replaces that entry where it stands and leaves the
\* length and every other entry as they were; the history never holds two
\* entries with the same (url, username).
C4_ReplaceInPlace ==
    [][ /\ \A i, j \in DOMAIN lsHistory :
              (lsHistory[i].url = lsHistory[j].url /\ lsHistory[i].username = lsHistory[j].username)
              => i = j
        /\ ( /\ loginSucceeds
             /\ hasKey(lsHistory, loginPending[1].url, loginPending[1].username) )
           => lsHistory' = [lsHistory EXCEPT
                               ![findIndex(lsHistory, loginPending[1].url, loginPending[1].username)]
                                   = config'[1]] ]_vars

\* what App's load effect would set from the stored alist_config
storedConfig == IF lsConfig = None THEN None ELSE Some(JSONparse(lsConfig[1]))

\* a step that ends the session: the active connection is set to null
sessionEnds == config # None /\ config' = None

\* C11: logout clears only the active connection slot: the step of the
\* logout button, and every step that sets the active connection to null,
\* leaves config null and alist_config removed and the persisted history as
\* it was; and the connection App would load from alist_config is always
\* the one in memory, which only a successful login replaces, so absent a
\* logout a restart loads the connection of the last successful login.
C11_LogoutClearsOnlyActiveSlot ==
    [][ /\ (logoutClick \/ sessionEnds)
           => (config' = None /\ lsConfig' = None /\ lsHistory' = lsHistory)
        /\ storedConfig = config
        /\ storedConfig' = config'
        /\ (config' # config /\ ~sessionEnds)
           => (loginSucceeds /\ config'[1].token \in IssuedTokens)
        /\ reload => (config' = storedConfig /\ lsConfig' = lsConfig) ]_vars

\* a login with a nickname that JSON escapes was followed by a logout: the
\* history still holds the entry
C11_Witness ==
    /\ config = None /\ lsConfig = None
    /\ lsHistory # <<>>
    /\ lsHistory[1].token \in IssuedTokens
    /\ lsHistory[1].serverName = str_quoted

\* the position in the history after this step of the entry that has the
\* (url, username) of the i-th entry before it, 0 if there is none
positionAfter(i) == findIndex(lsHistory', lsHistory[i].url, lsHistory[i].username)

\* the i-th entry was logged into since the app was opened, which is later than
\* every login that left an entry of the history the app was opened with
loggedIntoSinceOpened(i) == lsHistory[i].token \in IssuedTokens

\* C17 as stated: an entry that a successful login drops from the history
\* was logged into no later than any entry that stays
C17_DropsLeastRecentlyLoggedInto ==
    [][ loginSucceeds =>
          \A i, j \in DOMAIN lsHistory :
             (positionAfter(i) = 0 /\ positionAfter(j) # 0 /\ loggedIntoSinceOpened(i))
                => loggedIntoSinceOpened(j) ]_vars

\* C17, amended: the history is keyed by (url, username) and kept in the
\* order in which the keys were first added, newest first, not in the order
\* of the last login: a successful login never changes the order of the
\* entries that stay, a login into a key of a full history leaves its entry
\* where it stands, and a login with a new key into a full history drops the
\* entry in the last position and no other, however recently it was logged
\* into
C17_DropsLastPositionWhateverTheRecency ==
    [][ loginSucceeds =>
          /\ \A i, j \in DOMAIN lsHistory :
                (i < j /\ positionAfter(i) # 0 /\ positionAfter(j) # 0)
                   => positionAfter(i) < positionAfter(j)
          /\ Len(lsHistory) = HistoryCap =>
                \A i \in DOMAIN lsHistory :
                   positionAfter(i) =
                      IF hasKey(lsHistory, loginPending[1].url, loginPending[1].username) THEN i
                      ELSE IF i = HistoryCap THEN 0
                      ELSE i + 1 ]_vars

\* h2/admin was logged into again and then h3/bob for the first time: the
\* entry of h2/admin has not moved to the front, and the last entry was
\* dropped
C17_Witness ==
    /\ Len(lsHistory) = HistoryCap
    /\ lsHistory[1].username = "bob" /\ lsHistory[1].token \in IssuedTokens
    /\ ~hasKey(lsHistory, FullHistory[HistoryCap].url, FullHistory[HistoryCap].username)
    /\ lsHistory[4].url = FullHistory[3].url /\ lsHistory[4].username = "admin"
    /\ lsHistory[4].token \in IssuedTokens
    /\ lsHistory[2].token \notin IssuedTokens

\* the history h without its i-th entry
without(h, i) == SubSeq(h, 1, i - 1) \o SubSeq(h, i + 1, Len(h))

\* the step takes the i-th entry out of the persisted history: no entry has
\* its (url, username) afterwards
removed(i) == i \in DOMAIN lsHistory /\ positionAfter(i) = 0

\* the step is the confirmation of the dialog opened for the i-th entry
confirmedDeletionOf(i) == LoginMounted /\ configToDelete = i /\ configToDelete' = 0

submissionFails == loginError' # Null /\ loginError' # loginError

\* the session store: the active config in memory and in localStorage, and
\* the persisted login history
sessionStore == <<config, lsConfig, lsHistory>>

lateUnauthorizedArrives ==
    /\ mounted
    /\ \E t \in Pending :
          /\ t.kind = "list" /\ ~t.fb
          /\ \E content \in ListResults(t.path) : respondList(t, "unauthorized", content)

\* C24: a 401 invalidates only the session that issued the request: when a
\* list fetch is still outstanding while the user logs out and logs in
\* again, the late 401 for the old request clears the new active connection
\* neither from memory nor from localStorage
C24_LateUnauthorizedSparesNewSession ==
    [][ lateUnauthorizedArrives => (config' = config /\ lsConfig' = lsConfig) ]_vars

-----------------------------------------------------------------------------
(* Inputs of the derived view                                              *)

MaxFiles == 3

\* the entries a raw listing is drawn from, in the order the server returns them
EntryPool ==
    << [name |-> <<"f","i","l","e","1","0">>,     is_dir |-> FALSE, has_size |-> TRUE,  size |-> 5, modified |-> 3],
       [name |-> <<"f","i","l","e","2">>,         is_dir |-> FALSE, has_size |-> FALSE, size |-> 0, modified |-> 1],
       [name |-> <<"D","o","c","s">>,             is_dir |-> TRUE,  has_size |-> TRUE,  size |-> 0, modified |-> 6],
       [name |-> <<"f","i","l","e","1">>,         is_dir |-> FALSE, has_size |-> TRUE,  size |-> 9, modified |-> 2],
       [name |-> <<"A",".","M","P","4">>,         is_dir |-> FALSE, has_size |-> TRUE,  size |-> 7, modified |-> 5],
       [name |-> <<"v",".","j","p","g">>,         is_dir |-> TRUE,  has_size |-> TRUE,  size |-> 0, modified |-> 4],
       [name |-> <<"m","p","4">>,                 is_dir |-> FALSE, has_size |-> TRUE,  size |-> 2, modified |-> 8],
       [name |-> <<"n",".","p","d","f">>,         is_dir |-> FALSE, has_size |-> TRUE,  size |-> 1, modified |-> 7] >>

RECURSIVE pick(_, _)
\* the entries of pool whose index is in idx, in pool order
pick(pool, idx) ==
    IF pool = <<>> THEN <<>>
    ELSE pick(SubSeq(pool, 1, Len(pool) - 1), idx)
         \o (IF Len(pool) \in idx THEN <<pool[Len(pool)]>> ELSE <<>>)

Listings ==
    {pick(EntryPool, idx) : idx \in {s \in SUBSET DOMAIN EntryPool : Cardinality(s) <= MaxFiles}}

SearchInputs == { <<>>, <<"F","I","L","E">>, <<"m","p">> }
CustomExtInputs == { <<>>, <<" ",".","M","p","4"," ">> }

\* a FileBrowser that has loaded a listing
InitView ==
    /\ InitLoggedIn
    /\ files \in Listings
    /\ searchQuery = <<>>
    /\ filterType = "all"
    /\ customExt = <<>>
    /\ sortKey = "name"
    /\ sortOrder = "asc"
    /\ foldersFirst = TRUE
    /\ path = root
    /\ loading = FALSE
    /\ uploading = FALSE
    /\ errorMsg = Null
    /\ selectedItemNames = {}
    /\ isSelectionMode = FALSE
    /\ batchActionLoading = FALSE
    /\ showBatchDeleteConfirm = FALSE
    /\ selectedFile = None
    /\ sheetLoading = TRUE
    /\ deleting = FALSE
    /\ confirmDelete = FALSE
    /\ sheetError = Null
    /\ gestureInitialState
    /\ noResponse
    /\ previewClosed
    /\ tasks = EmptyBag

setSearchQuery(q) ==
    /\ searchQuery' = q
    /\ UNCHANGED <<files, filterType, customExt, sortKey, sortOrder, foldersFirst, appVars, loginVars, fbVars, sheetVars, netVars>>

setFilterType(t) ==
    /\ filterType' = t
    /\ UNCHANGED <<files, searchQuery, customExt, sortKey, sortOrder, foldersFirst, appVars, loginVars, fbVars, sheetVars, netVars>>

setCustomExt(e) ==
    /\ filterType = "custom"
    /\ customExt' = e
    /\ UNCHANGED <<files, searchQuery, filterType, sortKey, sortOrder, foldersFirst, appVars, loginVars, fbVars, sheetVars, netVars>>

setSortKey(k) ==
    /\ sortKey' = k
    /\ UNCHANGED <<files, searchQuery, filterType, customExt, sortOrder, foldersFirst, appVars, loginVars, fbVars, sheetVars, netVars>>

setSortOrder(o) ==
    /\ sortOrder' = o
    /\ UNCHANGED <<files, searchQuery, filterType, customExt, sortKey, foldersFirst, appVars, loginVars, fbVars, sheetVars, netVars>>

toggleFoldersFirst ==
    /\ foldersFirst' = ~foldersFirst
    /\ UNCHANGED <<files, searchQuery, filterType, customExt, sortKey, sortOrder, appVars, loginVars, fbVars, sheetVars, netVars>>

NextView ==
    \/ \E q \in SearchInputs : setSearchQuery(q) /\ idle
    \/ \E t \in FilterTypes : setFilterType(t) /\ idle
    \/ \E e \in CustomExtInputs : setCustomExt(e) /\ idle
    \/ \E k \in SortKeys : setSortKey(k) /\ idle
    \/ \E o \in SortOrders : setSortOrder(o) /\ idle
    \/ toggleFoldersFirst /\ idle

SpecView == InitView /\ [][NextView]_vars

-----------------------------------------------------------------------------
(* Claims about the derived view                                           *)

viewSet == {sortedAndFilteredFiles[i] : i \in DOMAIN sortedAndFilteredFiles}
fileSet == {files[i] : i \in DOMAIN files}

\* the extension classes, stated per class rather than per filter
extClass(f) ==
    IF ext(f) \in videoExts THEN "video"
    ELSE IF ext(f) \in imageExts THEN "image"
    ELSE IF ext(f) \in docExts THEN "doc"
    ELSE "others"

acceptedByType(f) ==
    \/ filterType = "all"
    \/ filterType \in {"video", "image", "doc", "others"} /\ extClass(f) = filterType
    \/ filterType = "custom" /\ (customExt = <<>> \/ ext(f) = customExtNormalized)

\* C1: the derived view holds exactly the entries of the raw listing that pass
\* the filters: every entry of it matches the search case-insensitively and is
\* a directory or accepted by the type filter, every directory that matches the
\* search is in it whatever the type filter, every accepted file that matches
\* is in it, and no entry is in it twice.
C1_ViewIsExactlyTheFilteredEntries ==
    /\ \A f \in viewSet :
          /\ f \in fileSet
          /\ includes(toLowerCase(f.name), toLowerCase(searchQuery))
          /\ (f.is_dir \/ acceptedByType(f))
    /\ \A f \in fileSet :
          (includes(toLowerCase(f.name), toLowerCase(searchQuery)) /\ (f.is_dir \/ acceptedByType(f)))
             => f \in viewSet
    /\ Cardinality(viewSet) = Len(sortedAndFilteredFiles)

\* a directory named like an image survives the video filter, a file does not
C1_Witness ==
    /\ filterType = "video"
    /\ searchQuery = <<"m","p">>
    /\ \E f \in fileSet : f.is_dir /\ ~includes(toLowerCase(f.name), toLowerCase(searchQuery))
    /\ \E f \in fileSet : ~f.is_dir /\ f \in viewSet
    /\ \E f \in fileSet : ~f.is_dir /\ f \notin viewSet

\* C2: with foldersFirst on, no non-directory entry precedes a directory entry
\* in the derived view, for every sort key and both sort orders.
C2_FoldersFirst ==
    foldersFirst =>
        \A i, j \in DOMAIN sortedAndFilteredFiles :
            (i < j /\ sortedAndFilteredFiles[j].is_dir) => sortedAndFilteredFiles[i].is_dir

\* a file precedes a directory in the raw listing, both are shown, the sort is
\* by size, descending
C2_Witness ==
    /\ foldersFirst
    /\ sortKey = "size"
    /\ sortOrder = "desc"
    /\ \E i, j \in DOMAIN files :
          /\ i < j /\ ~files[i].is_dir /\ files[j].is_dir
          /\ files[i] \in viewSet /\ files[j] \in viewSet

\* the names of the view, in its order
viewNames == [i \in DOMAIN sortedAndFilteredFiles |-> sortedAndFilteredFiles[i].name]

\* the position of the name n in the view, 0 if it is not in it
positionInView(n) ==
    IF \E i \in DOMAIN viewNames : viewNames[i] = n
    THEN CHOOSE i \in DOMAIN viewNames : viewNames[i] = n
    ELSE 0

\* file1, file2, file10: the order of their numbers
NumberedNames == << <<"f","i","l","e","1">>, <<"f","i","l","e","2">>, <<"f","i","l","e","1","0">> >>

\* C20: sorted by name, the files file1, file2 and file10 that are in the
\* view stand in the order of their numbers when the order is ascending
\* (file1, file2, file10) and in the reverse order when it is descending
C20_NameSortIsNumericAware ==
    sortKey = "name" =>
       \A i, j \in DOMAIN NumberedNames :
          (i < j /\ positionInView(NumberedNames[i]) # 0 /\ positionInView(NumberedNames[j]) # 0)
             => IF sortOrder = "asc"
                THEN positionInView(NumberedNames[i]) < positionInView(NumberedNames[j])
                ELSE positionInView(NumberedNames[i]) > positionInView(NumberedNames[j])

\* the listing file10, file2, file1 is searched for FILE and sorted by name,
\* ascending: the view is file1, file2, file10
C20_Witness ==
    /\ [i \in DOMAIN files |-> files[i].name] = <<NumberedNames[3], NumberedNames[2], NumberedNames[1]>>
    /\ sortKey = "name" /\ sortOrder = "asc"
    /\ searchQuery = <<"F","I","L","E">>
    /\ viewNames = NumberedNames

-----------------------------------------------------------------------------
(* The file browser: navigation, selection, batch actions, upload and the  *)
(* action sheet                                                            *)

BrowserSearchInputs == { <<>>, <<"z">> }
BrowserFilterInputs == { "all", "video" }

\* hasFolderSelected: some selected name whose first entry in files is a folder
hasFolderSelected ==
    \E name \in selectedItemNames :
        LET hits == {i \in DOMAIN files : files[i].name = name}
        IN  hits # {} /\ files[CHOOSE i \in hits : \A j \in hits : i <= j].is_dir

\* a mutation of the download button: it ignores what is selected
downloadDisabledOnlyWhileRunning == batchActionLoading

\* disabled of the three buttons of the selection bar
downloadDisabled == batchActionLoading \/ hasFolderSelected \/ selectedItemNames = {}
copyLinksDisabled == batchActionLoading \/ hasFolderSelected \/ selectedItemNames = {}
deleteDisabled == batchActionLoading \/ selectedItemNames = {}

\* fetchFiles up to the await of listFiles, for the FileBrowser that is shown
fetchFiles(currentPath, origin) ==
    /\ loading' = TRUE
    /\ errorMsg' = Null
    /\ tasks' = tasks (+) SetToBag({Task("list", origin, currentPath, {}, TRUE, FALSE)})

\* setPath(newPath) and, when the path changed, useEffect[path]
setPath(newPath) ==
    /\ path' = newPath
    /\ IF newPath # path
       THEN /\ BagCardinality(tasks) < MaxTasks
            /\ fetchFiles(newPath, "fetch")
            /\ isSelectionMode' = FALSE
            /\ selectedItemNames' = {}
       ELSE UNCHANGED <<loading, errorMsg, tasks, isSelectionMode, selectedItemNames>>

handleNavigate(newPath) ==
    /\ setPath(newPath)
    /\ searchQuery' = <<>>
    /\ filterType' = "all"
    /\ UNCHANGED <<files, customExt, prefVars, uploading, batchActionLoading,
                   showBatchDeleteConfirm, sheetVars, appVars, loginVars>>

\* the breadcrumb bar: the root or a prefix of the path
breadcrumbClick(n) ==
    /\ Interactive
    /\ n \in 0..Len(path)
    /\ handleNavigate(SubSeq(path, 1, n))

goBack ==
    IF path = root THEN UNCHANGED browserVars
    ELSE /\ setPath(SubSeq(path, 1, Len(path) - 1))
         /\ filterType' = "all"
         /\ UNCHANGED <<files, searchQuery, customExt, prefVars, uploading, batchActionLoading,
                        showBatchDeleteConfirm, sheetVars, appVars, loginVars>>

\* the back button, or an edge swipe, both only outside selection mode
backGesture ==
    /\ Interactive /\ ~isSelectionMode
    /\ goBack

\* the selection after toggleSelection(name)
toggled(name) ==
    IF name \in selectedItemNames THEN selectedItemNames \ {name}
    ELSE selectedItemNames \cup {name}

\* toggleSelection(name) after isSelectionMode was set to mode
toggleSelection(name, mode) ==
    /\ selectedItemNames' = toggled(name)
    /\ isSelectionMode' = IF name \in selectedItemNames /\ toggled(name) = {} THEN FALSE ELSE mode

\* setSelectedFile({file, path}): the ActionSheet is mounted and fetches the link
openActionSheet(file) ==
    /\ BagCardinality(tasks) < MaxTasks
    /\ selectedFile' = Some([name |-> file.name, path |-> path \o <<file.name>>])
    /\ sheetLoading' = TRUE
    /\ deleting' = FALSE
    /\ confirmDelete' = FALSE
    /\ sheetError' = Null
    /\ tasks' = tasks (+) SetToBag({Task("detail", "sheet", path, {file.name}, TRUE, TRUE)})
    /\ UNCHANGED <<viewVars, fbVars, appVars, loginVars>>

\* the long-press timer of handlePointerDown fires; the click that follows
\* the release is swallowed
longPress(i) ==
    /\ Interactive /\ ~loading
    /\ i \in DOMAIN sortedAndFilteredFiles
    /\ ~isSelectionMode
    /\ toggleSelection(sortedAndFilteredFiles[i].name, TRUE)
    /\ UNCHANGED <<viewVars, path, loading, errorMsg, uploading, batchActionLoading,
                   showBatchDeleteConfirm, sheetVars, netVars, appVars, loginVars>>

handleItemClick(i) ==
    /\ Interactive /\ ~loading
    /\ i \in DOMAIN sortedAndFilteredFiles
    /\ LET file == sortedAndFilteredFiles[i]
       IN  IF isSelectionMode
           THEN /\ toggleSelection(file.name, isSelectionMode)
                /\ UNCHANGED <<viewVars, path, loading, errorMsg, uploading, batchActionLoading,
                               showBatchDeleteConfirm, sheetVars, netVars, appVars, loginVars>>
           ELSE IF file.is_dir
           THEN Len(path) < MaxDepth /\ handleNavigate(path \o <<file.name>>)
           ELSE openActionSheet(file)

\* the three-dot button of a file row
moreButtonClick(i) ==
    /\ Interactive /\ ~loading
    /\ i \in DOMAIN sortedAndFilteredFiles
    /\ ~sortedAndFilteredFiles[i].is_dir /\ ~isSelectionMode
    /\ openActionSheet(sortedAndFilteredFiles[i])

selectAll ==
    /\ Interactive /\ isSelectionMode
    /\ IF Cardinality(selectedItemNames) = Len(sortedAndFilteredFiles)
       THEN /\ selectedItemNames' = {}
            /\ isSelectionMode' = FALSE
       ELSE /\ selectedItemNames' = {sortedAndFilteredFiles[i].name : i \in DOMAIN sortedAndFilteredFiles}
            /\ isSelectionMode' = isSelectionMode
    /\ UNCHANGED <<viewVars, path, loading, errorMsg, uploading, batchActionLoading,
                   showBatchDeleteConfirm, sheetVars, netVars, appVars, loginVars>>

\* an X of the selection bar that leaves the mode and keeps the names
exitSelectionKeepsNames ==
    /\ Interactive /\ isSelectionMode
    /\ isSelectionMode' = FALSE
    /\ UNCHANGED <<viewVars, path, loading, errorMsg, uploading, batchActionLoading, selectedItemNames,
                   showBatchDeleteConfirm, sheetVars, netVars, appVars, loginVars>>

\* the X of the selection bar
exitSelection ==
    /\ Interactive /\ isSelectionMode
    /\ isSelectionMode' = FALSE
    /\ selectedItemNames' = {}
    /\ UNCHANGED <<viewVars, path, loading, errorMsg, uploading, batchActionLoading,
                   showBatchDeleteConfirm, sheetVars, netVars, appVars, loginVars>>

\* the start of the loop over the selection, in handleBatchCopyLinks and in
\* handleBatchDownload: the first getFileDetail is issued
startBatch ==
    /\ batchActionLoading' = TRUE
    /\ tasks' = tasks (+) SetToBag({Task("detail", "batch", path, selectedItemNames, TRUE, FALSE)})
    /\ UNCHANGED <<viewVars, path, loading, errorMsg, uploading, selectedItemNames, isSelectionMode,
                   showBatchDeleteConfirm, sheetVars, appVars, loginVars>>

handleBatchCopyLinks ==
    IF hasFolderSelected \/ selectedItemNames = {} THEN UNCHANGED browserVars
    ELSE startBatch

handleBatchDownload ==
    IF hasFolderSelected \/ selectedItemNames = {} THEN UNCHANGED browserVars
    ELSE startBatch

copyLinksClick ==
    /\ Interactive /\ isSelectionMode /\ ~copyLinksDisabled
    /\ BagCardinality(tasks) < MaxTasks
    /\ handleBatchCopyLinks

downloadClick ==
    /\ Interactive /\ isSelectionMode /\ ~downloadDisabled
    /\ BagCardinality(tasks) < MaxTasks
    /\ handleBatchDownload

\* the delete button of the selection bar opens the confirmation overlay
openBatchDeleteConfirm ==
    /\ Interactive /\ isSelectionMode /\ ~deleteDisabled
    /\ showBatchDeleteConfirm' = TRUE
    /\ UNCHANGED <<viewVars, path, loading, errorMsg, uploading, selectedItemNames, isSelectionMode,
                   batchActionLoading, sheetVars, netVars, appVars, loginVars>>

\* Cancel in the overlay
cancelBatchDelete ==
    /\ mounted /\ showBatchDeleteConfirm
    /\ showBatchDeleteConfirm' = FALSE
    /\ UNCHANGED <<viewVars, path, loading, errorMsg, uploading, selectedItemNames, isSelectionMode,
                   batchActionLoading, sheetVars, netVars, appVars, loginVars>>

\* Delete All in the overlay: handleBatchDelete up to the await of deleteFiles
handleBatchDelete ==
    /\ mounted /\ showBatchDeleteConfirm
    /\ BagCardinality(tasks) < MaxTasks
    /\ batchActionLoading' = TRUE
    /\ tasks' = tasks (+) SetToBag({Task("remove", "batchDelete", path, {}, TRUE, FALSE)})
    /\ UNCHANGED <<viewVars, path, loading, errorMsg, uploading, selectedItemNames, isSelectionMode,
                   showBatchDeleteConfirm, sheetVars, appVars, loginVars>>

\* handleUploadClick and handleFileChange up to the await of uploadFile
handleFileChange ==
    /\ Interactive /\ ~isSelectionMode /\ ~uploading
    /\ BagCardinality(tasks) < MaxTasks
    /\ errorMsg' = Null
    /\ uploading' = TRUE
    /\ tasks' = tasks (+) SetToBag({Task("upload", "upload", path, {}, TRUE, FALSE)})
    /\ UNCHANGED <<viewVars, path, loading, selectedItemNames, isSelectionMode, batchActionLoading,
                   showBatchDeleteConfirm, sheetVars, appVars, loginVars>>

\* the X of the error banner
dismissError ==
    /\ Interactive /\ errorMsg # Null
    /\ errorMsg' = Null
    /\ UNCHANGED <<viewVars, path, loading, uploading, selectedItemNames, isSelectionMode,
                   batchActionLoading, showBatchDeleteConfirm, sheetVars, netVars, appVars, loginVars>>

\* 'Clear All Filters' of the empty view
clearAllFilters ==
    /\ Interactive /\ ~loading /\ sortedAndFilteredFiles = <<>>
    /\ filterType' = "all"
    /\ searchQuery' = <<>>
    /\ customExt' = <<>>
    /\ UNCHANGED <<files, prefVars, fbVars, sheetVars, netVars, appVars, loginVars>>

typeSearch(q) == Interactive /\ setSearchQuery(q)

chooseFilter(t) == Interactive /\ setFilterType(t)

sheetShown == mounted /\ selectedFile # None

\* a mutation of the sheet's Delete button: it sends the request at once
requestDeleteWithoutConfirm ==
    /\ sheetShown /\ ~sheetLoading /\ ~confirmDelete
    /\ BagCardinality(tasks) < MaxTasks
    /\ deleting' = TRUE
    /\ tasks' = tasks (+) SetToBag({Task("remove", "sheet", path, {}, TRUE, TRUE)})
    /\ UNCHANGED <<viewVars, fbVars, selectedFile, sheetLoading, confirmDelete, sheetError,
                   appVars, loginVars>>

\* Delete in the action sheet: setConfirmDelete(true)
requestDelete ==
    /\ sheetShown /\ ~sheetLoading /\ ~confirmDelete
    /\ confirmDelete' = TRUE
    /\ UNCHANGED <<viewVars, fbVars, selectedFile, sheetLoading, deleting, sheetError,
                   netVars, appVars, loginVars>>

\* Cancel of the sheet's confirmation
cancelConfirmDelete ==
    /\ sheetShown /\ ~sheetLoading /\ confirmDelete /\ ~deleting
    /\ confirmDelete' = FALSE
    /\ UNCHANGED <<viewVars, fbVars, selectedFile, sheetLoading, deleting, sheetError,
                   netVars, appVars, loginVars>>

\* Confirm of the sheet's confirmation: executeDelete up to the await
executeDelete ==
    /\ sheetShown /\ ~sheetLoading /\ confirmDelete /\ ~deleting
    /\ BagCardinality(tasks) < MaxTasks
    /\ deleting' = TRUE
    /\ sheetError' = Null
    /\ tasks' = tasks (+) SetToBag({Task("remove", "sheet", path, {}, TRUE, TRUE)})
    /\ UNCHANGED <<viewVars, fbVars, selectedFile, sheetLoading, confirmDelete,
                   appVars, loginVars>>

\* onClose: the backdrop or the X of the sheet
closeSheet ==
    /\ sheetShown
    /\ sheetInitialState
    /\ tasks' = detachSheet(tasks)
    /\ UNCHANGED <<viewVars, fbVars, appVars, loginVars>>

\* the FileBrowser was just mounted for a stored connection
Init ==
    /\ InitLoggedIn
    /\ fileBrowserUnmounted
    /\ gestureInitialState
    /\ noResponse
    /\ previewClosed
    /\ tasks = SetToBag({mountEffectTask})

Next ==
    \/ \E q \in BrowserSearchInputs : typeSearch(q) /\ idle
    \/ \E t \in BrowserFilterInputs : chooseFilter(t) /\ idle
    \/ clearAllFilters /\ idle
    \/ \E n \in 0..Len(path) : breadcrumbClick(n) /\ idle
    \/ backGesture /\ idle
    \/ \E i \in DOMAIN sortedAndFilteredFiles : longPress(i) /\ idle
    \/ \E i \in DOMAIN sortedAndFilteredFiles : handleItemClick(i) /\ idle
    \/ \E i \in DOMAIN sortedAndFilteredFiles : moreButtonClick(i) /\ idle
    \/ selectAll /\ idle
    \/ exitSelection /\ idle
    \/ copyLinksClick /\ idle
    \/ downloadClick /\ idle
    \/ openBatchDeleteConfirm /\ idle
    \/ cancelBatchDelete /\ idle
    \/ handleBatchDelete /\ idle
    \/ handleFileChange /\ idle
    \/ dismissError /\ idle
    \/ requestDelete /\ idle
    \/ cancelConfirmDelete /\ idle
    \/ executeDelete /\ idle
    \/ closeSheet /\ idle
    \/ logoutClick /\ idle
    \/ \E t \in Pending, status \in Statuses : \E content \in ListResults(t.path) : respondList(t, status, content) /\ idle
    \/ \E t \in Pending, status \in Statuses : respondRemove(t, status) /\ idle
    \/ \E t \in Pending, status \in Statuses : respondDetail(t, status) /\ idle
    \/ \E t \in Pending, status \in Statuses : respondUpload(t, status) /\ idle

Spec == Init /\ [][Next]_vars

RECURSIVE PathsUpTo(_)
\* the paths of at most n segments the browser can be at: it goes down by
\* the name of a folder of the listing it holds
PathsUpTo(n) ==
    IF n = 0 THEN {root}
    ELSE PathsUpTo(n - 1) \cup {Append(p, name_d) : p \in PathsUpTo(n - 1)}

\* the list requests that can be in flight
ListTasks ==
    { Task("list", origin, p, {}, fb, FALSE) :
        origin \in {"fetch", "batchDelete", "upload"}, p \in PathsUpTo(MaxDepth), fb \in BOOLEAN }

\* listFiles of the request t settles
listSettles(t) ==
    \E status \in Statuses : \E content \in ListResults(t.path) : respondList(t, status, content) /\ idle

\* request aborts its fetch after 20 seconds, so the promise of every
\* listFiles settles: with a response, a rejection, or the AbortError
SpecTimeout == Init /\ [][Next]_vars /\ \A t \in ListTasks : WF_vars(listSettles(t))

-----------------------------------------------------------------------------
(* The file browser under touch: pointer and touch handlers, the long-press *)
(* timeouts and pull-to-refresh. The pointer handlers are those of          *)
(* FileBrowser.tsx; handleTouchMove, the pull branch of handleTouchEnd and  *)
(* the reset after a fetch are those of the pull-to-refresh FileBrowser.    *)

PULL_LIMIT == 110
PULL_TRIGGER_ZONE == 100
EdgeWidth == 40
SwipeMinDeltaX == 100
MoveTolerance == 10
HoldingPosition == 50

\* where a finger goes down: 10 or 200 pixels from the left edge, on the
\* first row of the list
StartXs == {10, 200}
StartY == 300

\* how far a finger is from where it went down after it moved
Displacements ==
    { [dx |-> 140, dy |-> 0], [dx |-> 0, dy |-> 5], [dx |-> 0, dy |-> 150], [dx |-> 0, dy |-> 240] }

abs(n) == IF n < 0 THEN -n ELSE n

min(a, b) == IF a < b THEN a ELSE b

\* Math.pow(deltaY, 0.8) * DAMPING_COEFFICIENT * 2 rounded down, for the
\* vertical distances the fingers of the model can be from a recorded start
rawDistance(deltaY) ==
    CASE deltaY = 5 -> 4
      [] deltaY = 150 -> 71
      [] deltaY = 240 -> 104

\* the fingers on the screen
Down == {f \in 1..MaxTouches : touches[f] # None}

\* the list is rendered (the pull-to-refresh FileBrowser keeps it while it
\* refreshes) and no overlay covers it
listShown == Interactive /\ (~loading \/ isRefreshing) /\ sortedAndFilteredFiles # <<>>

\* the file of the row a finger lands on, if the list is shown
rowUnder == IF listShown THEN Some(sortedAndFilteredFiles[1].name) ELSE None

\* clearTimeout(longPressTimer.current); longPressTimer.current = null
clearedTimers == IF longPressTimer = 0 THEN timers ELSE [timers EXCEPT ![longPressTimer] = None]

\* the timeouts T once the fingers F are lifted: one that is still pending
\* outlives the press that set it
outlived(T, F) ==
    [k \in 1..MaxTimers |->
        IF T[k] # None /\ T[k][1].press \in F THEN Some([T[k][1] EXCEPT !.press = 0]) ELSE T[k]]

\* handlePointerDown for a finger that lands on a row, then handleTouchStart
\* with n fingers on the screen; a list of one or two rows cannot be
\* scrolled, so scrollTop is 0
touchDown(x) ==
    /\ UNCHANGED <<serviceVars, previewVars>>
    /\ mounted /\ pendingClick = None
    /\ Down # 1..MaxTouches
    /\ LET f == CHOOSE g \in 1..MaxTouches \ Down : \A h \in 1..MaxTouches \ Down : g <= h
           n == Cardinality(Down) + 1
           item == rowUnder
           free == {k \in 1..MaxTimers : timers[k] = None}
           k == CHOOSE j \in free : \A h \in free : j <= h
       IN  /\ item # None => free # {}
           /\ IF item # None
              THEN /\ wasLongPress' = FALSE
                   /\ timers' = [timers EXCEPT ![k] = Some([name |-> item[1], isSelectionMode |-> isSelectionMode,
                                                            press |-> f])]
                   /\ longPressTimer' = k
              ELSE UNCHANGED <<wasLongPress, timers, longPressTimer>>
           /\ IF item # None \/ n = 1
              THEN /\ touchStartPos' = [x |-> x, y |-> StartY]
                   /\ touchStartOld' = FALSE
              ELSE UNCHANGED <<touchStartPos, touchStartOld>>
           /\ isPulling' = IF n = 1 THEN TRUE ELSE isPulling
           /\ touches' = [g \in 1..MaxTouches |->
                            IF g = f
                            THEN Some([startX |-> x, startY |-> StartY, x |-> x, y |-> StartY,
                                       item |-> item, old |-> FALSE, solo |-> n = 1,
                                       fired |-> FALSE])
                            ELSE IF touches[g] = None THEN None
                            ELSE Some([touches[g][1] EXCEPT !.solo = FALSE])]
    /\ UNCHANGED <<pullDistance, isRefreshing, pendingClick, browserVars>>

\* handlePointerMove for a finger that went down on a row, then
\* handleTouchMove
touchMove(f, d) ==
    /\ UNCHANGED <<serviceVars, previewVars>>
    /\ mounted /\ pendingClick = None
    /\ f \in Down
    /\ Cardinality(Down) <= MaxMovingTouches
    /\ LET t == touches[f][1]
           x == t.startX + d.dx
           y == t.startY + d.dy
           deltaX == abs(x - touchStartPos.x)
           deltaY == y - touchStartPos.y
       IN  /\ <<x, y>> # <<t.x, t.y>>
           /\ touches' = [touches EXCEPT ![f] = Some([t EXCEPT !.x = x, !.y = y])]
           /\ IF t.item # None /\ (deltaX > MoveTolerance \/ abs(deltaY) > MoveTolerance)
              THEN timers' = clearedTimers /\ longPressTimer' = 0
              ELSE UNCHANGED <<timers, longPressTimer>>
           /\ IF Cardinality(Down) # 1 \/ ~isPulling \/ isRefreshing \/ isSelectionMode
              THEN UNCHANGED pullDistance
              ELSE IF deltaY > 0 /\ deltaY > deltaX
              THEN pullDistance' = min(rawDistance(deltaY), PULL_LIMIT)
              ELSE pullDistance' = 0
    /\ UNCHANGED <<touchStartPos, touchStartOld, wasLongPress, isPulling, isRefreshing,
                   pendingClick, browserVars>>

\* the condition of handleTouchEnd for an edge swipe, for a finger lifted at (x, y)
edgeSwipeDetected(x, y) ==
    LET deltaX == x - touchStartPos.x
        deltaY == y - touchStartPos.y
    IN  /\ ~isSelectionMode
        /\ touchStartPos.x < EdgeWidth
        /\ deltaX > SwipeMinDeltaX
        /\ abs(deltaX) > abs(deltaY) * 2
        /\ ~touchStartOld

\* a handleTouchEnd that commits any pull that was shown
refreshCommittedAnyPull == pullDistance > 0 /\ ~isRefreshing

\* the condition of handleTouchEnd for committing the pull
refreshCommitted == pullDistance >= PULL_TRIGGER_ZONE /\ ~isRefreshing

\* one finger is lifted: handlePointerUp if it went down on a row, then
\* handleTouchEnd; the platform sends a click (clicks) for a finger that was
\* alone, did not move and went down on a row
touchUp(f, clicks) ==
    /\ UNCHANGED <<serviceVars, previewVars>>
    /\ mounted /\ pendingClick = None
    /\ f \in Down
    /\ edgeSwipeDetected(touches[f][1].x, touches[f][1].y) => BagCardinality(tasks) < MaxGestureTasks
    /\ LET t == touches[f][1]
       IN  /\ touches' = [touches EXCEPT ![f] = None]
           /\ IF t.item # None
              THEN timers' = outlived(clearedTimers, {f}) /\ longPressTimer' = 0
              ELSE timers' = outlived(timers, {f}) /\ UNCHANGED longPressTimer
           /\ pendingClick' = IF clicks /\ t.item # None /\ t.solo /\ t.x = t.startX /\ t.y = t.startY
                              THEN Some([name |-> t.item[1], fired |-> t.fired]) ELSE None
           /\ IF edgeSwipeDetected(t.x, t.y)
              THEN /\ goBack
                   /\ pullDistance' = 0
                   /\ UNCHANGED <<isPulling, isRefreshing>>
              ELSE IF refreshCommitted
              THEN /\ BagCardinality(tasks) < MaxTasks
                   /\ isRefreshing' = TRUE
                   /\ pullDistance' = HoldingPosition
                   /\ fetchFiles(path, "refresh")
                   /\ isPulling' = FALSE
                   /\ UNCHANGED <<viewVars, path, uploading, selectedItemNames, isSelectionMode,
                                  batchActionLoading, showBatchDeleteConfirm, sheetVars,
                                  appVars, loginVars>>
              ELSE /\ pullDistance' = 0
                   /\ isPulling' = FALSE
                   /\ UNCHANGED <<isRefreshing, browserVars>>
    /\ UNCHANGED <<touchStartPos, touchStartOld, wasLongPress>>

\* two fingers are lifted at once: handlePointerUp for each that went down on
\* a row, and handleTouchEnd returns for changedTouches.length = 2
touchUpBoth ==
    /\ UNCHANGED <<serviceVars, previewVars>>
    /\ mounted /\ pendingClick = None
    /\ Cardinality(Down) = 2
    /\ touches' = [f \in 1..MaxTouches |-> None]
    /\ IF \E f \in Down : touches[f][1].item # None
       THEN timers' = outlived(clearedTimers, Down) /\ longPressTimer' = 0
       ELSE timers' = outlived(timers, Down) /\ UNCHANGED longPressTimer
    /\ UNCHANGED <<touchStartPos, touchStartOld, wasLongPress, isPulling, pullDistance,
                   isRefreshing, pendingClick, browserVars>>

\* the timeout k set by handlePointerDown elapses: its callback runs with the
\* isSelectionMode of the render that set it; a ref left holding the id of
\* the timeout that ran clears nothing afterwards and is written as null
longPressFires(k) ==
    /\ UNCHANGED <<serviceVars, previewVars>>
    /\ mounted /\ pendingClick = None
    /\ timers[k] # None
    /\ timers' = [timers EXCEPT ![k] = None]
    /\ longPressTimer' = IF longPressTimer = k THEN 0 ELSE longPressTimer
    /\ IF ~timers[k][1].isSelectionMode
       THEN /\ toggleSelection(timers[k][1].name, TRUE)
            /\ wasLongPress' = TRUE
            /\ touches' = [f \in 1..MaxTouches |->
                             IF f = timers[k][1].press
                             THEN Some([touches[f][1] EXCEPT !.fired = TRUE]) ELSE touches[f]]
       ELSE UNCHANGED <<selectedItemNames, isSelectionMode, wasLongPress, touches>>
    /\ UNCHANGED <<touchStartPos, touchStartOld, isPulling, pullDistance, isRefreshing,
                   pendingClick>>
    /\ UNCHANGED <<viewVars, path, loading, errorMsg, uploading, batchActionLoading,
                   showBatchDeleteConfirm, sheetVars, netVars, appVars, loginVars>>

\* the click the platform sends after the release: handleItemClick of the row
clickItem ==
    /\ UNCHANGED <<serviceVars, previewVars>>
    /\ mounted /\ pendingClick # None
    /\ BagCardinality(tasks) < MaxGestureTasks
    /\ pendingClick' = None
    /\ LET hits == {i \in DOMAIN sortedAndFilteredFiles : sortedAndFilteredFiles[i].name = pendingClick[1].name}
       IN  IF hits = {} \/ ~listShown
           THEN UNCHANGED <<wasLongPress, browserVars>>
           ELSE LET file == sortedAndFilteredFiles[CHOOSE i \in hits : TRUE]
                IN  IF wasLongPress
                    THEN wasLongPress' = FALSE /\ UNCHANGED browserVars
                    ELSE /\ UNCHANGED wasLongPress
                         /\ IF isSelectionMode
                            THEN /\ toggleSelection(file.name, isSelectionMode)
                                 /\ UNCHANGED <<viewVars, path, loading, errorMsg, uploading,
                                                batchActionLoading, showBatchDeleteConfirm,
                                                sheetVars, netVars, appVars, loginVars>>
                            ELSE IF file.is_dir
                            THEN Len(path) < MaxDepth /\ handleNavigate(path \o <<file.name>>)
                            ELSE openActionSheet(file)
    /\ UNCHANGED <<touchStartPos, touchStartOld, longPressTimer, isPulling, pullDistance,
                   isRefreshing, timers, touches>>

\* half a second goes by: every start recorded so far is 500 ms old or older
timePasses ==
    /\ UNCHANGED <<serviceVars, previewVars>>
    /\ mounted /\ pendingClick = None
    /\ ~touchStartOld \/ \E f \in Down : ~touches[f][1].old
    /\ touchStartOld' = TRUE
    /\ touches' = [f \in 1..MaxTouches |->
                     IF touches[f] = None THEN None ELSE Some([touches[f][1] EXCEPT !.old = TRUE])]
    /\ UNCHANGED <<touchStartPos, longPressTimer, wasLongPress, isPulling, pullDistance,
                   isRefreshing, timers, pendingClick, browserVars>>

\* fetchFiles of the pull-to-refresh FileBrowser after listFiles settled: its
\* finally also ends the refresh and resets the pull distance
respondListRefresh(t, status, content) ==
    /\ UNCHANGED <<serviceVars, previewVars>>
    /\ pendingClick = None
    /\ respondList(t, status, content)
    /\ IF t.fb
       THEN isRefreshing' = FALSE /\ pullDistance' = 0
       ELSE UNCHANGED <<isRefreshing, pullDistance>>
    /\ UNCHANGED <<touchStartPos, touchStartOld, longPressTimer, wasLongPress, isPulling,
                   timers, touches, pendingClick>>

\* the outcomes of a list request while the session lasts
GestureStatuses == {"ok"}

\* the FileBrowser shows the loaded root folder, no finger on the screen
InitGesture ==
    /\ InitLoggedIn
    /\ files = Content(root)
    /\ searchQuery = <<>>
    /\ filterType = "all"
    /\ customExt = <<>>
    /\ sortKey = "name"
    /\ sortOrder = "asc"
    /\ foldersFirst = TRUE
    /\ path = root
    /\ loading = FALSE
    /\ uploading = FALSE
    /\ errorMsg = Null
    /\ selectedItemNames = {}
    /\ isSelectionMode = FALSE
    /\ batchActionLoading = FALSE
    /\ showBatchDeleteConfirm = FALSE
    /\ selectedFile = None
    /\ sheetLoading = TRUE
    /\ deleting = FALSE
    /\ confirmDelete = FALSE
    /\ sheetError = Null
    /\ gestureInitialState
    /\ noResponse
    /\ previewClosed
    /\ tasks = EmptyBag

\* a pull commits its refresh only while no other request is in flight
refreshAlone == refreshCommitted => BagCardinality(tasks) < MaxGestureTasks

NextGesture ==
    \/ \E x \in StartXs : touchDown(x)
    \/ \E f \in 1..MaxTouches, d \in Displacements : touchMove(f, d)
    \/ \E f \in 1..MaxTouches, clicks \in BOOLEAN : touchUp(f, clicks) /\ refreshAlone
    \/ touchUpBoth
    \/ \E k \in 1..MaxTimers : longPressFires(k)
    \/ clickItem
    \/ timePasses
    \/ \E t \in Pending, status \in GestureStatuses : \E content \in ListResults(t.path) : respondListRefresh(t, status, content)
    \/ pendingClick = None /\ closeSheet /\ idle

SpecGesture == InitGesture /\ [][NextGesture]_vars

\* the same browser touched by one finger at a time, in which a pull may
\* commit its refresh while another request is in flight
NextPull ==
    \/ \E x \in StartXs : Down = {} /\ touchDown(x)
    \/ \E f \in 1..MaxTouches, d \in Displacements : touchMove(f, d)
    \/ \E f \in 1..MaxTouches, clicks \in BOOLEAN : touchUp(f, clicks)
    \/ \E k \in 1..MaxTimers : longPressFires(k)
    \/ clickItem
    \/ timePasses
    \/ \E t \in Pending, status \in GestureStatuses : \E content \in ListResults(t.path) : respondListRefresh(t, status, content)
    \/ pendingClick = None /\ closeSheet /\ idle

SpecPull == InitGesture /\ [][NextPull]_vars

-----------------------------------------------------------------------------
(* Claims about the file browser                                           *)

\* the response to the request t arrives in this step, at a FileBrowser that
\* is shown before and after
answered(t) ==
    /\ mounted /\ config' # None
    /\ t.fb
    /\ CopiesIn(t, tasks') < CopiesIn(t, tasks)

\* no list fetch of the FileBrowser shown is in flight after this step
noFetchOutstandingAfter ==
    \A u \in BagToSet(tasks') : ~(u.kind = "list" /\ u.fb)

\* C5: the late result of a fetch for a path the user has left is discarded:
\* when a list response with entries arrives and leaves no fetch outstanding,
\* the displayed entries are those returned for the current path, whatever
\* the order in which the responses arrived.
C5_LateFetchResultDiscarded ==
    [][ \A t \in BagToSet(tasks) :
            ( /\ answered(t) /\ t.kind = "list"
              /\ \E content \in ListResults(t.path) : respondList(t, "ok", content)
              /\ noFetchOutstandingAfter )
            => files' \in ListResults(path') ]_vars

\* an HTTP 401 arrives in this step for a request of the FileBrowser shown
unauthorizedArrives ==
    /\ mounted
    /\ \E t \in BagToSet(tasks) :
          /\ t.fb
          /\ \/ \E content \in ListResults(t.path) : respondList(t, "unauthorized", content)
             \/ respondRemove(t, "unauthorized")
             \/ respondDetail(t, "unauthorized")
             \/ respondUpload(t, "unauthorized")

\* C6: an HTTP 401 answer to a list, get-detail, delete or upload request
\* invalidates the session: the active connection is cleared in memory and
\* removed from localStorage by the step that handles the answer.
C6_UnauthorizedInvalidatesSession ==
    [][ unauthorizedArrives => (config' = None /\ lsConfig' = None) ]_vars

\* the getFileDetail request t of a batch is sent in this step
batchDetailIssued(t) ==
    /\ t.kind = "detail" /\ t.origin = "batch"
    /\ CopiesIn(t, tasks') > CopiesIn(t, tasks)

\* t is the next round of a loop that is already running
continuesLoop(t) ==
    \E u \in BagToSet(tasks) :
        /\ u.kind = "detail" /\ u.origin = "batch" /\ u.path = t.path
        /\ CopiesIn(u, tasks') < CopiesIn(u, tasks)
        /\ t.names \subseteq u.names /\ t.names # u.names

C8_SelectionModeImpliesNonEmpty ==
    isSelectionMode => selectedItemNames # {}

\* C9: every navigation to another path resets the search text and the type
\* filter, issues a list fetch for the new path and shows Loading, and
\* leaves selection mode with nothing selected.
C9_NavigationResets ==
    [][ (mounted /\ config' # None /\ path' # path)
        => /\ searchQuery' = <<>>
           /\ filterType' = "all"
           /\ loading'
           /\ CopiesIn(Task("list", "fetch", path', {}, TRUE, FALSE), tasks')
              > CopiesIn(Task("list", "fetch", path', {}, TRUE, FALSE), tasks)
           /\ ~isSelectionMode'
           /\ selectedItemNames' = {} ]_vars

\* the remove requests in flight that were sent by origin
removesBy(B, origin) ==
    copiesOf({t \in BagToSet(B) : t.kind = "remove" /\ (t.origin = origin \/ ~t.fb)}, B)

\* C10: a remove request is only sent by Confirm of the action sheet with
\* confirmDelete set, or by Delete All of the opened batch-delete overlay;
\* cancelling or closing either dialog sends none.
C10_RemoveOnlyAfterConfirmation ==
    [][ /\ (mounted /\ config' # None /\ removesBy(tasks', "sheet") > removesBy(tasks, "sheet"))
           => (sheetShown /\ confirmDelete /\ executeDelete)
        /\ (mounted /\ config' # None /\ removesBy(tasks', "batchDelete") > removesBy(tasks, "batchDelete"))
           => (showBatchDeleteConfirm /\ handleBatchDelete)
        /\ (cancelBatchDelete \/ cancelConfirmDelete \/ closeSheet)
           => /\ removesBy(tasks', "sheet") = removesBy(tasks, "sheet")
              /\ removesBy(tasks', "batchDelete") = removesBy(tasks, "batchDelete") ]_vars

\* a remove request of the action sheet and one of the batch overlay are in flight
C10_Witness ==
    /\ mounted
    /\ \E t \in BagToSet(tasks) : t.kind = "remove" /\ t.origin = "sheet" /\ t.sheet
    /\ \E t \in BagToSet(tasks) : t.kind = "remove" /\ t.origin = "batchDelete"
    /\ deleting /\ confirmDelete

\* the list requests in flight whose fetchFiles belongs to the FileBrowser shown
fetchesOutstanding == {t \in Pending : t.kind = "list" /\ t.fb}

\* a step in which the fetchFiles of the FileBrowser shown ends in its catch
\* block and the FileBrowser stays
fetchFails ==
    \E t \in fetchesOutstanding, status \in {"failed", "timeout"} :
        \E content \in ListResults(t.path) : respondList(t, status, content)

navigates == mounted /\ config' # None /\ path' # path

\* a step in which a batch action of the browser shown ends without an
\* error: the loop over getFileDetail got its last result, or the fetchFiles
\* that handleBatchDelete awaits after deleteFiles has returned
batchSucceeds ==
    \/ \E t \in Pending :
          /\ t.origin = "batch" /\ t.fb /\ Cardinality(t.names) = 1
          /\ respondDetail(t, "ok")
    \/ \E t \in Pending, status \in Statuses \ {"unauthorized"} :
          /\ t.origin = "batchDelete" /\ t.fb
          /\ \E content \in ListResults(t.path) : respondList(t, status, content)

\* a step in which a batch action of the browser shown ends in its catch block
batchFails ==
    \/ \E t \in Pending, status \in Statuses \ {"ok"} :
          t.origin = "batch" /\ t.fb /\ respondDetail(t, status)
    \/ \E t \in Pending, status \in Statuses \ {"ok"} :
          t.origin = "batchDelete" /\ t.fb /\ respondRemove(t, status)

\* C23: navigation, the exit control and a batch action (download,
\* copy-link, delete) that completes successfully leave selection mode with
\* nothing selected; a batch action that fails leaves the selection and the
\* mode as they were and sets the error message; batchActionLoading is false
\* after the batch action in both cases
C23_SelectionClearedOrKept ==
    [][ /\ (navigates \/ exitSelection \/ batchSucceeds) =>
              (isSelectionMode' = FALSE /\ selectedItemNames' = {})
        /\ batchFails =>
              /\ UNCHANGED <<selectedItemNames, isSelectionMode>>
              /\ errorMsg' # Null
        /\ (batchSucceeds \/ batchFails) => batchActionLoading' = FALSE
      ]_vars

\* Delete All was rejected: the overlay is closed, the two names are still
\* selected in selection mode and the error is shown
C23_Witness ==
    /\ mounted
    /\ tasks = EmptyBag
    /\ isSelectionMode
    /\ selectedItemNames = {name_d, name_a}
    /\ errorMsg # Null
    /\ batchActionLoading = FALSE
    /\ showBatchDeleteConfirm = FALSE
    /\ loading = FALSE

\* C25: loading is true whenever at least one list fetch of the browser
\* shown is outstanding: with overlapping fetches the completion of one does
\* not clear loading while another is still in flight
C25_LoadingWhileFetchOutstanding ==
    (mounted /\ fetchesOutstanding # {}) => loading

\* the /api/fs/remove requests of handleBatchDelete in flight for the browser shown
batchDeletesInFlight ==
    copiesOf({t \in Pending : t.kind = "remove" /\ t.origin = "batchDelete" /\ t.fb}, tasks)

\* C26: at most one batch delete is in flight at a time: while a batch
\* action is running no second remove request for the selection is started,
\* pressing Delete All again in the still-open overlay included
C26_AtMostOneBatchDelete ==
    batchDeletesInFlight <= 1

\* the names of the entries of the listing held
listedNames == {files[i].name : i \in DOMAIN files}

\* C27: every name in the selection is the name of an entry of the listing
\* held, in every reachable state, also when a fetch that was outstanding
\* when selection mode was entered completes and replaces the listing
C27_SelectionWithinListing ==
    mounted => selectedItemNames \subseteq listedNames

-----------------------------------------------------------------------------
(* Claims about the touch gestures                                         *)

\* the finger f alone is lifted in this step
lifted(f) ==
    /\ touches[f] # None
    /\ touches'[f] = None
    /\ \A g \in 1..MaxTouches \ {f} : touches'[g] = touches[g]

\* the stroke of the finger f, from where it went down to where it is: it
\* started within 40 px of the left edge, moved right by more than 100 px,
\* mostly horizontally, in under 500 ms
strokeQualifies(f) ==
    LET t == touches[f][1]
    IN  /\ t.startX < EdgeWidth
        /\ t.x - t.startX > SwipeMinDeltaX
        /\ abs(t.x - t.startX) > abs(t.y - t.startY) * 2
        /\ ~t.old

\* the parent of the path p, '/' being its own
parentOf(p) == IF p = root THEN root ELSE SubSeq(p, 1, Len(p) - 1)

\* C12: when a finger is lifted, the path becomes its parent (and stays '/'
\* at the root) if the stroke of that finger started at x < 40, moved right
\* by more than 100 px, had |dx| > 2|dy|, lasted under 500 ms and selection
\* mode is off; for any other stroke the release leaves the path alone
C12_EdgeSwipeFiresExactlyOnQualifyingStroke ==
    [][\A f \in 1..MaxTouches :
          lifted(f) =>
             IF strokeQualifies(f) /\ ~isSelectionMode
             THEN path' = parentOf(path)
             ELSE path' = path]_vars

\* the forced list requests for the path p that are in flight in the bag B
forcedRefreshes(B, p) ==
    copiesOf({t \in BagToSet(B) : t.kind = "list" /\ t.origin = "refresh" /\ t.path = p /\ t.fb}, B)

\* the list requests in flight in the bag B
listRequests(B) == copiesOf({t \in BagToSet(B) : t.kind = "list"}, B)

\* the finger f was alone on the screen since it went down at the top of the
\* list, and is now dy pixels straight below where it went down
draggedDown(f, dy) ==
    LET t == touches[f][1]
    IN  /\ t.solo /\ isPulling
        /\ t.x = t.startX /\ t.y - t.startY = dy
        /\ ~isSelectionMode /\ ~isRefreshing

\* the finger f, alone on the screen since it went down at the top of the
\* list, moves in this step to dy pixels straight below where it went down
dragsDown(f, dy) ==
    /\ touches[f] # None /\ touches'[f] # None
    /\ touches'[f][1].solo /\ isPulling
    /\ touches'[f][1].y # touches[f][1].y
    /\ touches'[f][1].x = touches[f][1].startX
    /\ touches'[f][1].y - touches[f][1].startY = dy
    /\ ~isSelectionMode /\ ~isRefreshing

C14_SelectionModeBlocksSwipeAndPull ==
    [][(isSelectionMode /\ touches' # touches) =>
          /\ path' = path
          /\ pullDistance' <= pullDistance
          /\ forcedRefreshes(tasks', path) <= forcedRefreshes(tasks, path)]_vars

\* handlePointerDown sets a long-press timeout in this step
timerArmed == \E k \in 1..MaxTimers : timers[k] = None /\ timers'[k] # None

\* a long-press timeout runs in this step and turns selection mode on
longPressSelects ==
    /\ \E k \in 1..MaxTimers : timers[k] # None /\ timers'[k] = None
    /\ ~isSelectionMode /\ isSelectionMode'

\* C15: no long-press timeout is set while the list is pulled down (pull
\* distance above 0), and none turns selection mode on while it is
C15_NoLongPressDuringPull ==
    [][ /\ timerArmed => pullDistance = 0
        /\ longPressSelects => pullDistance = 0 ]_vars

\* the timeout k runs in this step while the finger that set it is still on
\* the screen, selection mode being off
longPressOf(k) ==
    /\ timers[k] # None /\ timers'[k] = None
    /\ timers[k][1].press # 0
    /\ \A f \in 1..MaxTouches :
          /\ touches[f] = None <=> touches'[f] = None
          /\ touches[f] # None =>
                (touches'[f][1].x = touches[f][1].x /\ touches'[f][1].y = touches[f][1].y)
    /\ ~isSelectionMode

\* handleItemClick runs in this step for the click that follows a release
clickHandled ==
    /\ pendingClick # None /\ pendingClick' = None
    /\ listShown
    /\ \E i \in DOMAIN sortedAndFilteredFiles : sortedAndFilteredFiles[i].name = pendingClick[1].name

\* C16: a long press that fires turns selection mode on with exactly its item
\* selected; the click that follows the release of that press changes
\* nothing (no deselection, no sheet, no navigation); and a click is
\* swallowed only if the timeout set by its own press has fired
C16_LongPressSelectsAndSuppressesClick ==
    [][ /\ \A k \in 1..MaxTimers :
              longPressOf(k) => (isSelectionMode' /\ selectedItemNames' = {timers[k][1].name})
        /\ (clickHandled /\ pendingClick[1].fired)
              => (wasLongPress /\ UNCHANGED <<selectedItemNames, isSelectionMode, path, selectedFile, tasks>>)
        /\ (clickHandled /\ wasLongPress) => pendingClick[1].fired ]_vars

\* the forced list requests of pulls that are in flight for the browser shown
pullRefreshesOutstanding ==
    copiesOf({t \in Pending : t.kind = "list" /\ t.origin = "refresh" /\ t.fb}, tasks)

\* C28: at most one forced refresh committed by a pull is outstanding at a
\* time: while one has not completed isRefreshing stays true, so that no
\* second pull commits another, also when some other list fetch completes
\* in between
C28_AtMostOnePullRefresh ==
    mounted =>
        /\ pullRefreshesOutstanding <= 1
        /\ pullRefreshesOutstanding > 0 => isRefreshing

\* the callback of the timeout k runs in this step (no finger goes down, is
\* lifted or moves), selection mode having been off when it was set
timeoutRuns(k) ==
    /\ timers[k] # None /\ timers'[k] = None
    /\ ~timers[k][1].isSelectionMode
    /\ \A f \in 1..MaxTouches :
          /\ touches[f] = None <=> touches'[f] = None
          /\ touches[f] # None =>
                (touches'[f][1].x = touches[f][1].x /\ touches'[f][1].y = touches[f][1].y)

\* the finger f is on the screen, within the tolerance of where it went down
heldStill(f) ==
    /\ f # 0 /\ touches[f] # None
    /\ abs(touches[f][1].x - touches[f][1].startX) <= MoveTolerance
    /\ abs(touches[f][1].y - touches[f][1].startY) <= MoveTolerance

\* C29: a long-press never fires for a pointer that was released or has
\* moved more than 10px: the timeout of a press is cancelled by the
\* pointer-up or the jitter move of that press, also when a second
\* pointer-down on another item has set a new timeout in between
C29_LongPressOnlyForHeldPointer ==
    [][ \A k \in 1..MaxTimers : timeoutRuns(k) => heldStill(timers[k][1].press) ]_vars

-----------------------------------------------------------------------------
(* AListService: the normalisation of the URLs in the responses of          *)
(* listFiles and getFileDetail                                              *)

str_https == <<"h","t","t","p","s",":","/","/">>

\* s.startsWith(prefix)
startsWith(s, prefix) == Len(s) >= Len(prefix) /\ SubSeq(s, 1, Len(prefix)) = prefix

\* s.replace(from, to) for strings: the first occurrence of from is replaced
replaceFirstOccurrence(s, from, to) ==
    LET at == {i \in 1..(Len(s) - Len(from) + 1) : SubSeq(s, i, i + Len(from) - 1) = from}
    IN  IF at = {} THEN s
        ELSE LET i == CHOOSE k \in at : \A j \in at : k <= j
             IN  SubSeq(s, 1, i - 1) \o to \o SubSeq(s, i + Len(from), Len(s))

\* this.baseUrl of the service constructed for the active connection
baseUrl ==
    LET url == config[1].url
    IN  IF url # <<>> /\ url[Len(url)] = "/" THEN SubSeq(url, 1, Len(url) - 1) ELSE url

\* this.protocol
protocol == IF startsWith(baseUrl, str_https) THEN str_https ELSE str_http

\* a mutation of fixProtocol: a relative URL is not resolved against the base
fixProtocolNoRelative(url) ==
    IF url = Undefined \/ url = <<>> THEN <<>>
    ELSE IF protocol = str_https /\ startsWith(url, str_http)
    THEN replaceFirstOccurrence(url, str_http, str_https)
    ELSE url

fixProtocol(url) ==
    IF url = Undefined \/ url = <<>> THEN <<>>
    ELSE IF protocol = str_https /\ startsWith(url, str_http)
    THEN replaceFirstOccurrence(url, str_http, str_https)
    ELSE IF startsWith(url, <<"/">>)
    THEN baseUrl \o url
    ELSE url

\* listFiles after the request resolved: the thumb of an entry is normalised
listFiles ==
    /\ thumb' = fixProtocol(thumb)
    /\ UNCHANGED <<raw_url, browserVars, gestureVars, previewVars>>

\* getFileDetail after the request resolved
getFileDetail ==
    /\ raw_url' = fixProtocol(raw_url)
    /\ thumb' = fixProtocol(thumb)
    /\ UNCHANGED <<browserVars, gestureVars, previewVars>>

str_h2_thumb == str_h2 \o <<"/","t",".","j","p","g">>
str_relative == <<"/","d","/","a">>

\* the URLs a server sends as thumb or raw_url
ResponseUrls ==
    { Undefined,
      <<>>,
      str_http \o str_h2_thumb,
      str_https \o str_h2 \o <<"/","r">>,
      str_relative,
      <<"d","a","t","a",":","x">>,
      str_http \o str_h2 \o <<"/","?","u","=">> \o str_http \o str_h3,
      <<"H","T","T","P",":","/","/">> \o str_h2 }

\* the connections the service is constructed for: https, https with the
\* trailing slash a port field can carry, and http
ServiceConfigs ==
    { ServerConfig(str_https \o str_h1 \o <<":">> \o str_port, "admin", "t1", str_OpenList),
      ServerConfig(str_https \o str_h1 \o <<":">> \o str_port \o <<"/">>, "admin", "t1", str_OpenList),
      ServerConfig(str_http \o str_h1 \o <<":">> \o str_port, "admin", "t1", str_OpenList) }

\* a service constructed for the active connection holds a response
InitService ==
    /\ config \in {Some(c) : c \in ServiceConfigs}
    /\ lsConfig = Some(JSONstringify(config[1]))
    /\ lsHistory = <<config[1]>>
    /\ savedConfigs = <<>>
    /\ configToDelete = 0
    /\ loginPending = None
    /\ loginLoading = FALSE
    /\ loginError = Null
    /\ fileBrowserUnmounted
    /\ gestureInitialState
    /\ previewClosed
    /\ tasks = EmptyBag
    /\ thumb \in ResponseUrls
    /\ raw_url \in ResponseUrls

NextService ==
    \/ listFiles
    \/ getFileDetail

SpecService == InitService /\ [][NextService]_vars

\* what the normalisation is said to return for url
normalized(url) ==
    IF url = Undefined \/ url = <<>> THEN <<>>
    ELSE IF startsWith(config[1].url, str_https) /\ startsWith(url, str_http)
    THEN str_https \o SubSeq(url, Len(str_http) + 1, Len(url))
    ELSE IF Head(url) = "/"
    THEN baseUrl \o url
    ELSE url

-----------------------------------------------------------------------------
(* The preview modal: the effect that loads the content of a text or PDF   *)
(* file, the blob URL it creates for a PDF, and the cleanup that revokes   *)
(* it. A blob URL is named by the number of the effect run that created it *)
(* (0 is null).                                                            *)

\* how many times the effect runs in a behaviour
MaxEffects == 3

\* the props url and type of a PreviewModal (config.token does not change
\* while a preview is shown)
PreviewInputs ==
    { [url |-> "u1", type |-> "pdf"], [url |-> "u2", type |-> "pdf"],
      [url |-> "u1", type |-> "text"], [url |-> "u1", type |-> "image"] }

\* the body of the effect for the props p: loadContent up to the await of
\* fetch for a text or a PDF, setLoading(false) for an image
effectRuns(E, p) ==
    /\ effects' = Append(E, [type |-> p.type,
                             stage |-> IF p.type \in {"text", "pdf"} THEN "fetch" ELSE "done",
                             currentBlobUrl |-> 0, cleaned |-> FALSE, attached |-> TRUE])
    /\ previewLoading' = (p.type \in {"text", "pdf"})
    /\ previewError' = IF p.type \in {"text", "pdf"} THEN Null ELSE previewError

\* the effects after the cleanup of the latest run was called
cleanedUp == [effects EXCEPT ![Len(effects)].cleaned = TRUE]

\* the blob URLs after the cleanup of the latest run: it revokes what
\* currentBlobUrl holds when it is called
revokedByCleanup ==
    IF effects[Len(effects)].currentBlobUrl # 0
    THEN objectURLs \ {effects[Len(effects)].currentBlobUrl} ELSE objectURLs

\* a PreviewModal is mounted with the props p
openPreview(p) ==
    /\ previewProps = None /\ Len(effects) < MaxEffects
    /\ previewProps' = Some(p)
    /\ blobUrl' = 0
    /\ effectRuns(effects, p)
    /\ UNCHANGED <<objectURLs, browserVars, gestureVars, serviceVars>>

\* the props change to p while the modal is shown: the cleanup of the
\* latest run, then the effect again
changeInputs(p) ==
    /\ previewProps # None /\ Len(effects) < MaxEffects
    /\ <<p.url, p.type>> # <<previewProps[1].url, previewProps[1].type>>
    /\ previewProps' = Some(p)
    /\ objectURLs' = revokedByCleanup
    /\ effectRuns(cleanedUp, p)
    /\ UNCHANGED <<blobUrl, browserVars, gestureVars, serviceVars>>

\* onClose: the modal is unmounted, the cleanup of the latest run is called,
\* and the continuations still pending no longer reach a component
closePreview ==
    /\ previewProps # None
    /\ previewProps' = None
    /\ objectURLs' = revokedByCleanup
    /\ effects' = [e \in DOMAIN effects |-> [cleanedUp[e] EXCEPT !.attached = FALSE]]
    /\ blobUrl' = 0
    /\ previewLoading' = TRUE
    /\ previewError' = Null
    /\ UNCHANGED <<browserVars, gestureVars, serviceVars>>

\* the catch and the finally of loadContent of the run e
loadFails(e) ==
    /\ effects' = [effects EXCEPT ![e].stage = "done"]
    /\ previewError' = IF effects[e].attached THEN Message ELSE previewError
    /\ previewLoading' = IF effects[e].attached THEN FALSE ELSE previewLoading
    /\ UNCHANGED <<previewProps, objectURLs, blobUrl, browserVars, gestureVars, serviceVars>>

\* the fetch of the run e settles: a response that is ok is read as text or
\* as a blob, anything else is thrown
fetchSettles(e, ok) ==
    /\ e \in DOMAIN effects /\ effects[e].stage = "fetch"
    /\ IF ok
       THEN /\ effects' = [effects EXCEPT ![e].stage = IF effects[e].type = "text" THEN "text" ELSE "blob"]
            /\ UNCHANGED <<previewProps, objectURLs, blobUrl, previewLoading, previewError,
                           browserVars, gestureVars, serviceVars>>
       ELSE loadFails(e)

\* response.text() of the run e settles
textRead(e, ok) ==
    /\ e \in DOMAIN effects /\ effects[e].stage = "text"
    /\ IF ok
       THEN /\ effects' = [effects EXCEPT ![e].stage = "done"]
            /\ previewLoading' = IF effects[e].attached THEN FALSE ELSE previewLoading
            /\ UNCHANGED <<previewProps, objectURLs, blobUrl, previewError,
                           browserVars, gestureVars, serviceVars>>
       ELSE loadFails(e)

\* response.blob() of the run e settles: URL.createObjectURL, the closure
\* variable is assigned, setBlobUrl, and the finally
blobRead(e, ok) ==
    /\ e \in DOMAIN effects /\ effects[e].stage = "blob"
    /\ IF ok
       THEN /\ effects' = [effects EXCEPT ![e].stage = "done", ![e].currentBlobUrl = e]
            /\ objectURLs' = objectURLs \cup {e}
            /\ blobUrl' = IF effects[e].attached THEN e ELSE blobUrl
            /\ previewLoading' = IF effects[e].attached THEN FALSE ELSE previewLoading
            /\ UNCHANGED <<previewProps, previewError, browserVars, gestureVars, serviceVars>>
       ELSE loadFails(e)

\* a promise of some loadContent settles
contentSettles ==
    \E e \in 1..MaxEffects, ok \in BOOLEAN :
        fetchSettles(e, ok) \/ textRead(e, ok) \/ blobRead(e, ok)

\* logged in, no preview was opened yet
InitPreview ==
    /\ InitLoggedIn
    /\ fileBrowserUnmounted
    /\ gestureInitialState
    /\ noResponse
    /\ tasks = EmptyBag
    /\ previewClosed

NextPreview ==
    \/ \E p \in PreviewInputs : openPreview(p)
    \/ \E p \in PreviewInputs : changeInputs(p)
    \/ closePreview
    \/ \E e \in 1..MaxEffects, ok \in BOOLEAN : fetchSettles(e, ok)
    \/ \E e \in 1..MaxEffects, ok \in BOOLEAN : textRead(e, ok)
    \/ \E e \in 1..MaxEffects, ok \in BOOLEAN : blobRead(e, ok)

\* the promises of fetch, response.text() and response.blob() settle
SpecPreview == InitPreview /\ [][NextPreview]_vars /\ WF_vars(contentSettles)

-----------------------------------------------------------------------------
(* Claims about the preview modal                                          *)

\* the cleanup of the run e was called and the blob URL that run created is
\* not revoked
outlivesCleanup(e) ==
    e \in DOMAIN effects /\ effects[e].cleaned /\ e \in objectURLs

\* C30: every blob URL created for a PDF preview is eventually revoked once
\* the preview is closed or its inputs change, also when the modal is closed
\* while the content fetch is in flight and the blob URL is created afterwards
C30_BlobUrlsEventuallyRevoked ==
    \A e \in 1..MaxEffects : outlivesCleanup(e) ~> (e \notin objectURLs)

====
